---- MODULE Spec2Model ----
(***************************************************************************)
(* A model of canine's Orchestrator.run_pipeline and of the Localizer it   *)
(* drives (src/canine/orchestrator.py, src/canine/localization.py).        *)
(*                                                                         *)
(* Strings that the code takes apart are modelled by their parts:          *)
(*   - a path is a sequence of components, a component is the sequence of  *)
(*     its dot-separated parts: jobs/0/inputs/x.txt is                     *)
(*     << <<"jobs">>, <<"0">>, <<"inputs">>, <<"x","txt">> >>;             *)
(*   - an input value is such a path too; a gs:// URI starts with the      *)
(*     component <<"gs:">>;                                                *)
(*   - a composite SLURM job id "<batch>_<idx>" is a sequence of tokens.   *)
(***************************************************************************)
EXTENDS Integers, Sequences, FiniteSets, TLC

VARIABLES
    config,        \* the pipeline description the Orchestrator was built from
    pc,            \* position of run_pipeline
    exc,           \* the exception in flight (or propagated), NoExc when none
    fs,            \* the controller's file system: path -> content
    locInputs,     \* Localizer.inputs: {jobId: {inputName: Localization}}
    commonInputs,  \* Localizer.common_inputs
    jobIdx,        \* number of tasks localize_job has returned for
    batchId,       \* the batch id sbatch returned
    waiting,       \* waiting_jobs
    outputs,       \* the output map collected from delocalize
    received,      \* files delivered to the invoking host by transport.receive
    hist,          \* what has been called so far (history, read by no action)
    backend,        \* the backend object, and the containers of its docker daemon
    requester_pays, \* Localizer.requester_pays, a class attribute: {bucket: bool}
    cli,            \* the command line main was given, and the conf it builds
    task,           \* the run of one array element's entrypoint.sh on a worker
    caller          \* the caller's config dict and the Orchestrators built from it

vars == << config, pc, exc, fs, locInputs, commonInputs, jobIdx, batchId,
           waiting, outputs, received, hist, backend, requester_pays, cli,
           task, caller >>

\* What run_pipeline and the Localizer's planning leave alone.
others == << backend, requester_pays, cli, task, caller >>

----------------------------------------------------------------------------
(* Bounds                                                                   *)

\* Largest number of tasks of a job spec of the pipeline specification.
MaxTasks == 2

\* Largest number of (task, input) entries of a job spec of the planning
\* specification.
MaxInputs == 3

\* Largest number of --input options on a command line.
MaxArgs == 3

----------------------------------------------------------------------------
(* Paths and strings                                                        *)

\* A one-part path component.
C(s) == << s >>

\* os.path.join of a path and further components.
Join(p, q) == p \o q

\* os.path.basename: the last component.
Basename(p) == p[Len(p)]

\* os.path.dirname: everything but the last component.
Dirname(p) == SubSeq(p, 1, Len(p) - 1)

\* '{}._alt{}'.format(*os.path.splitext(filepath)): splitext cuts the last
\* dot-separated part of the last component off as the extension (none when
\* the component has a single part).
AltPath(p) ==
    LET b == Basename(p)
        n == Len(b)
        nb == IF n = 1 THEN b \o << "_alt" >>
              ELSE SubSeq(b, 1, n - 1) \o << "_alt" >> \o << b[n] >>
    IN  Join(Dirname(p), << nb >>)

\* value.startswith('gs://')
IsGs(v) == Len(v) > 0 /\ v[1] = C("gs:")

\* str(i) for the array indices the model uses.
Str(i) == << "0", "1", "2", "3", "4", "5", "6", "7", "8", "9" >>[i + 1]

\* The characters of a string that holds characters a shell treats
\* specially, as tokens: a run of plain characters is one token, a special
\* character is a token of its own. Any other string is one plain token.
Chars(s) ==
    CASE s = "hey!" -> << "hey", "!" >>
      [] s = "hey you" -> << "hey", " ", "you" >>
      [] s = "it's" -> << "it", "'", "s" >>
      [] OTHER -> << s >>

\* The text of a path component: its parts joined by dots.
RECURSIVE CompText(_)
CompText(c) ==
    IF Len(c) = 0 THEN << >>
    ELSE IF Len(c) = 1 THEN Chars(c[1])
    ELSE Chars(c[1]) \o << "." >> \o CompText(Tail(c))

\* The text of a path or value: its components joined by slashes.
RECURSIVE Text(_)
Text(p) ==
    IF Len(p) = 0 THEN << >>
    ELSE IF Len(p) = 1 THEN CompText(p[1])
    ELSE CompText(p[1]) \o << "/" >> \o Text(Tail(p))

\* shlex.quote: a text of safe characters is returned as it is; any other is
\* put in single quotes, each single quote of it written '"'"'.
SpecialChars == { " ", "!", "'", "\"" }
RECURSIVE EscapeQuotes(_)
EscapeQuotes(t) ==
    IF Len(t) = 0 THEN << >>
    ELSE (IF t[1] = "'" THEN << "'", "\"", "'", "\"", "'" >> ELSE << t[1] >>)
         \o EscapeQuotes(Tail(t))
ShQuote(t) ==
    IF Len(t) = 0 THEN << "'", "'" >>
    ELSE IF \A i \in 1..Len(t) : t[i] \notin SpecialChars THEN t
    ELSE << "'" >> \o EscapeQuotes(t) \o << "'" >>

\* The value bash gives a variable for the word w of `export name=w` in a
\* sourced script: quotes are removed by the shell's rules (inside double
\* quotes a single quote is an ordinary character, and the reverse), and an
\* unquoted space ends the word. A quote left open at the end of the word
\* swallows what follows in the script: the value is not the word's.
RECURSIVE ShellWord(_, _, _)
ShellWord(w, k, mode) ==
    IF k > Len(w) THEN (IF mode = "plain" THEN << >> ELSE << "<open quote>" >>)
    ELSE LET tok == w[k]
         IN  CASE mode = "plain" /\ tok = "'" -> ShellWord(w, k + 1, "single")
               [] mode = "plain" /\ tok = "\"" -> ShellWord(w, k + 1, "double")
               [] mode = "plain" /\ tok = " " -> << >>
               [] mode = "single" /\ tok = "'" -> ShellWord(w, k + 1, "plain")
               [] mode = "double" /\ tok = "\"" -> ShellWord(w, k + 1, "plain")
               [] OTHER -> << tok >> \o ShellWord(w, k + 1, mode)

\* '{}_{}'.format(batch_id, i)
FormatJid(b, i) == << b, "_", Str(i) >>

\* jid.split('_')[1]: the field after the first underscore.
RECURSIVE FirstUnderscore(_, _)
FirstUnderscore(s, k) ==
    IF k > Len(s) THEN 0
    ELSE IF s[k] = "_" THEN k ELSE FirstUnderscore(s, k + 1)

SplitJob(jid) == jid[FirstUnderscore(jid, 1) + 1]

----------------------------------------------------------------------------
(* The world around the program                                             *)

\* Files of the invoking host that input values may name (os.path.isfile).
F1 == << C("d1"), << "x", "txt" >> >>
F2 == << C("d2"), << "x", "txt" >> >>
\* A cloud object and a plain literal.
G1 == << C("gs:"), C("b"), << "o", "txt" >> >>
L1 == << C("bar") >>

\* A shell script on the invoking host, and a path that names no file.
S1 == << C("d1"), << "run", "sh" >> >>
S2 == << C("d1"), << "gone", "sh" >> >>

LocalFiles == { F1, F2, S1 }
Values == { F1, F2, G1, L1 }

IsFile(v) == v \in LocalFiles

\* Input names, in the order the inputs mapping of a task lists them.
NameOrder == << "a", "b" >>
InputNames == { NameOrder[k] : k \in 1..Len(NameOrder) }

\* Task ids, in the order the job spec lists them.
TaskOrder == [ i \in 1..(MaxTasks + 1) |-> Str(i - 1) ]

\* The states sacct reports for an array element. SUSPENDED is the SLURM
\* state of a job that was started and has not ended.
SlurmStates == { "PENDING", "RUNNING", "SUSPENDED",
                 "COMPLETED", "FAILED", "CANCELLED", "TIMEOUT" }
TerminalStates == { "COMPLETED", "FAILED", "CANCELLED", "TIMEOUT" }

\* Batch ids sbatch may return.
BatchIds == { "7", "42" }

----------------------------------------------------------------------------
(* Localizer.__init__                                                       *)

\* self.staging_dir
StagingDir == << C("stg") >>

\* Mount paths a configuration may give (None: the staging dir itself).
MountPaths == { StagingDir, << C("mnt") >> }

\* self.env: paths relative to the staging dir on the controller.
Env(cfg) ==
    [ CANINE_ROOT   |-> StagingDir,
      CANINE_COMMON |-> Join(StagingDir, << C("common") >>),
      CANINE_OUTPUT |-> Join(StagingDir, << C("outputs") >>),
      CANINE_JOBS   |-> Join(StagingDir, << C("jobs") >>) ]

\* A variant of Environment built from the staging dir, as self.env is.
EnvironmentOfStaging(cfg) ==
    [ CANINE_ROOT   |-> StagingDir,
      CANINE_COMMON |-> Join(StagingDir, << C("common") >>),
      CANINE_OUTPUT |-> Join(StagingDir, << C("outputs") >>),
      CANINE_JOBS   |-> Join(StagingDir, << C("jobs") >>) ]

\* self.environment: paths relative to the mount dir on the workers.
Environment(cfg) ==
    [ CANINE_ROOT   |-> cfg.mount_path,
      CANINE_COMMON |-> Join(cfg.mount_path, << C("common") >>),
      CANINE_OUTPUT |-> Join(cfg.mount_path, << C("outputs") >>),
      CANINE_JOBS   |-> Join(cfg.mount_path, << C("jobs") >>) ]

----------------------------------------------------------------------------
(* The transport's file system                                              *)

Dir == [ kind |-> "dir", src |-> << >> ]
File(src) == [ kind |-> "file", src |-> src ]

Exists(f, p) == p \in DOMAIN f
IsDir(f, p) == p \in DOMAIN f /\ f[p].kind = "dir"
IsRegular(f, p) == p \in DOMAIN f /\ f[p].kind = "file"

\* transport.mkdir
MkDir(f, p) == IF Exists(f, p) THEN f ELSE f @@ (p :> Dir)

\* transport.makedirs: the directory and every missing ancestor.
MakeDirs(f, p) ==
    LET missing == { SubSeq(p, 1, k) : k \in 1..Len(p) } \ DOMAIN f
    IN  f @@ [ q \in missing |-> Dir ]

\* A file written at p (transport.send, transport.open(p, 'w'), gsutil cp).
WriteFile(f, p, src) == [ q \in DOMAIN f \cup { p } |-> IF q = p THEN File(src) ELSE f[q] ]

\* transport.remove
RemoveFile(f, p) == [ q \in DOMAIN f \ { p } |-> f[q] ]

\* The paths at or below p.
Under(f, p) ==
    { q \in DOMAIN f : Len(q) >= Len(p) /\ SubSeq(q, 1, Len(p)) = p }

\* rm -rf p
RmRf(f, p) == [ q \in DOMAIN f \ Under(f, p) |-> f[q] ]

----------------------------------------------------------------------------
(* Localizer.localize: planning                                             *)

\* A Localization record; the code's type None is written "none".
Localization(type, path) == [ type |-> type, path |-> path ]

\* Override values as the configuration gives them: a string in some letter
\* case, or a value that is not a string (YAML null, a number).
Raw(text) == [ str |-> TRUE, text |-> text ]
NotAString == [ str |-> FALSE, text |-> "~" ]
RawOverrides ==
    { Raw("common"), Raw("localize"), Raw("stream"), Raw("delayed"),
      Raw("Stream"), NotAString }

\* A variant of Lower that keeps the letter case.
LowerKeep(s) == s

\* str.lower() on the override strings of the model.
Lower(s) ==
    CASE s = "Stream" -> "stream"
      [] s = "Common" -> "common"
      [] s = "Localize" -> "localize"
      [] s = "Delayed" -> "delayed"
      [] OTHER -> s

\* Python's None as an override mode.
NoneMode == "<None>"

\* overrides = {k: v.lower() if isinstance(v, str) else None ...}
NormOverrides(ov) ==
    [ k \in DOMAIN ov |-> IF ov[k].str THEN Lower(ov[k].text) ELSE NoneMode ]

\* The (jobId, arg, path) triples in the order the two nested loops over
\* inputs.items() and values.items() visit them.
Items(cfg) ==
    LET K == Len(NameOrder)
        slots == [ k \in 1..(Len(cfg.jobSpec) * K) |->
                     [ job  |-> cfg.jobSpec[((k - 1) \div K) + 1],
                       name |-> NameOrder[((k - 1) % K) + 1] ] ]
        present == SelectSeq(slots, LAMBDA s : s.name \in DOMAIN cfg.inputs[s.job])
    IN  [ k \in 1..Len(present) |->
            [ job |-> present[k].job, name |-> present[k].name,
              path |-> cfg.inputs[present[k].job][present[k].name] ] ]

\* The loop that fills self.common_inputs.
RECURSIVE CommonScan(_, _, _, _, _)
CommonScan(items, ov, k, seen, acc) ==
    IF k > Len(items) THEN acc
    ELSE LET arg == items[k].name
             path == items[k].path
             again == path \in seen
                      /\ (arg \notin DOMAIN ov \/ ov[arg] = "common")
             marked == arg \in DOMAIN ov /\ ov[arg] = "common"
         IN  CommonScan(items, ov, k + 1, seen \cup { path },
                        acc \cup (IF again \/ marked THEN { path } ELSE {}))

CommonInputs(cfg) ==
    IF cfg.common
    THEN CommonScan(Items(cfg), NormOverrides(cfg.overrides), 1, {}, {})
    ELSE {}

\* The common inputs the second loop copies: cloud objects (when localize_gs)
\* and local files; anything else is reported and skipped.
CommonHandled(cfg, ci) ==
    { path \in ci : (IsGs(path) /\ cfg.localize_gs) \/ IsFile(path) }

\* Where a common input is written on the controller, and the path the
\* workers are given for it.
CommonTarget(cfg, path) == Join(Env(cfg).CANINE_COMMON, << Basename(path) >>)
CommonDest(cfg, path) == Join(Environment(cfg).CANINE_COMMON, << Basename(path) >>)

\* common_dests
CommonDests(cfg, ci) ==
    [ path \in CommonHandled(cfg, ci) |-> CommonDest(cfg, path) ]

\* The loop visits the set self.common_inputs in an order the code does not
\* fix: when two of them are written to the same target the later one stays.
\* A choice of the one that stays, per target.
CommonWinners(cfg, ci) ==
    LET handled == CommonHandled(cfg, ci)
        targets == { CommonTarget(cfg, path) : path \in handled }
    IN  { w \in [ targets -> handled ] :
            \A t \in targets : CommonTarget(cfg, w[t]) = t }

CopyCommon(f, w) ==
    [ q \in DOMAIN f \cup DOMAIN w |->
        IF q \in DOMAIN w THEN File(w[q]) ELSE f[q] ]

\* The while loop of localize_file: the first path of the _alt chain that
\* does not exist.
RECURSIVE FreePath(_, _)
FreePath(f, p) == IF Exists(f, p) THEN FreePath(f, AltPath(p)) ELSE p

\* A variant of LocalizeFile with one inputs directory for all the tasks.
LocalizeFileShared(f, cfg, jobId, value, delayed) ==
    LET first == Join(Env(cfg).CANINE_JOBS, << C("inputs"), Basename(value) >>)
        f1 == MakeDirs(f, Dirname(first))
        filepath == FreePath(f1, first)
        f2 == IF delayed THEN f1
              ELSE IF cfg.localize_gs /\ IsGs(value) THEN WriteFile(f1, filepath, value)
              ELSE IF IsFile(value) THEN WriteFile(f1, filepath, value)
              ELSE f1
    IN  [ fs |-> f2,
          path |-> Join(Environment(cfg).CANINE_JOBS,
                        << C("inputs"), Basename(filepath) >>) ]

\* Localizer.localize_file: the file system afterwards and the path returned.
LocalizeFile(f, cfg, jobId, value, delayed) ==
    LET first == Join(Env(cfg).CANINE_JOBS,
                      << C(jobId), C("inputs"), Basename(value) >>)
        f1 == MakeDirs(f, Dirname(first))
        filepath == FreePath(f1, first)
        f2 == IF delayed THEN f1
              ELSE IF cfg.localize_gs /\ IsGs(value) THEN WriteFile(f1, filepath, value)
              ELSE IF IsFile(value) THEN WriteFile(f1, filepath, value)
              ELSE f1
    IN  [ fs |-> f2,
          path |-> Join(Environment(cfg).CANINE_JOBS,
                        << C(jobId), C("inputs"), Basename(value) >>) ]

\* One iteration of the loop over a task's inputs: st is the file system and
\* self.inputs so far.
PlanInput(st, cfg, ov, dests, jobId, arg, value) ==
    LET put(rec) == [ st EXCEPT !.inputs[jobId] = @ @@ (arg :> rec) ]
        staged == LocalizeFile(st.fs, cfg, jobId, value, FALSE)
        copied == [ fs |-> staged.fs,
                    inputs |-> put(Localization("none", staged.path)).inputs ]
    IN  IF arg \in DOMAIN ov
        THEN CASE ov[arg] = "stream" -> put(Localization("stream", value))
               [] ov[arg] = "localize" -> copied
               [] ov[arg] = "delayed" ->
                    IF ~IsGs(value) THEN copied
                    ELSE put(Localization("download", value))
               [] ov[arg] = NoneMode -> put(Localization("none", value))
               [] OTHER -> st
        ELSE IF value \in DOMAIN dests
             THEN put(Localization("none", dests[value]))
             ELSE IF IsFile(value) \/ IsGs(value) THEN copied
                  ELSE put(Localization("none", value))

RECURSIVE PlanArgs(_, _, _, _, _, _)
PlanArgs(st, cfg, ov, dests, jobId, k) ==
    IF k > Len(NameOrder) THEN st
    ELSE LET arg == NameOrder[k]
         IN  PlanArgs(IF arg \in DOMAIN cfg.inputs[jobId]
                      THEN PlanInput(st, cfg, ov, dests, jobId, arg,
                                     cfg.inputs[jobId][arg])
                      ELSE st,
                      cfg, ov, dests, jobId, k + 1)

\* A variant of PlanJob that does not create the task's workspace directory.
PlanJobNoWorkspace(st, cfg, ov, dests, jobId) ==
    PlanArgs([ fs |-> st.fs,
               inputs |-> [ j \in DOMAIN st.inputs \cup { jobId } |->
                              IF j = jobId THEN << >> ELSE st.inputs[j] ] ],
             cfg, ov, dests, jobId, 1)

\* The body of the loop over the tasks: the workspace directory, an empty
\* self.inputs[jobId], then the task's inputs.
PlanJob(st, cfg, ov, dests, jobId) ==
    LET workspace_path == Join(Env(cfg).CANINE_JOBS, << C(jobId), C("workspace") >>)
        f1 == IF IsDir(st.fs, workspace_path) THEN st.fs
              ELSE MakeDirs(st.fs, workspace_path)
        st1 == [ fs |-> f1,
                 inputs |-> [ j \in DOMAIN st.inputs \cup { jobId } |->
                                IF j = jobId THEN << >> ELSE st.inputs[j] ] ]
    IN  PlanArgs(st1, cfg, ov, dests, jobId, 1)

RECURSIVE PlanJobs(_, _, _, _, _)
PlanJobs(st, cfg, ov, dests, k) ==
    IF k > Len(cfg.jobSpec) THEN st
    ELSE PlanJobs(PlanJob(st, cfg, ov, dests, cfg.jobSpec[k]), cfg, ov, dests, k + 1)

\* Localizer.localize as a whole, from file system f and self.inputs inp,
\* with w the common input that stays at each common target.
LocalizePlan(f, inp, cfg, w) ==
    LET ci == CommonInputs(cfg)
    IN  PlanJobs([ fs |-> CopyCommon(f, w), inputs |-> inp ], cfg,
                 NormOverrides(cfg.overrides), CommonDests(cfg, ci), 1)

----------------------------------------------------------------------------
(* Localizer.delocalize                                                     *)

\* Where delocalize_file puts a file on the invoking host:
\* <output_dir>/<jobId>/<name>/<basename>.
OutputDir == << C("canine_output") >>
OutputPath(jobId, name, fullname) ==
    Join(OutputDir, << C(jobId), C(name), Basename(fullname) >>)

\* Output names, in the order the patterns mapping lists them.
PatternOrder == << "log", "out" >>

\* fnmatch.fnmatch of text t against pattern pat: a `*` of the pattern matches
\* any run of characters, slashes included; anything else matches itself.
RECURSIVE Fnmatch(_, _)
Fnmatch(t, pat) ==
    IF Len(pat) = 0 THEN Len(t) = 0
    ELSE IF pat[1] = "*"
         THEN \E k \in 0..Len(t) : Fnmatch(SubSeq(t, k + 1, Len(t)), Tail(pat))
         ELSE Len(t) > 0 /\ t[1] = pat[1] /\ Fnmatch(Tail(t), Tail(pat))

\* fnmatch of a workspace file against a pattern, by its full path or by its
\* path relative to the workspace.
Matches(fullname, start_dir, pattern) ==
    \/ Fnmatch(Text(fullname), Text(pattern))
    \/ Fnmatch(Text(SubSeq(fullname, Len(start_dir) + 1, Len(fullname))), Text(pattern))

\* transport.walk(d): d, then the directories below it, each before the
\* directories it holds.
RECURSIVE Walk(_, _)
RECURSIVE WalkFrom(_, _)
WalkFrom(f, subs) ==
    IF subs = {} THEN << >>
    ELSE LET sub == CHOOSE q \in subs : TRUE
         IN  Walk(f, sub) \o WalkFrom(f, subs \ { sub })
Walk(f, d) ==
    << d >> \o WalkFrom(f, { q \in DOMAIN f : f[q].kind = "dir" /\ Dirname(q) = d })

\* The filenames walk yields for directory d.
Filenames(f, d) == { q \in DOMAIN f : f[q].kind = "file" /\ Dirname(q) = d }

\* The loop over the files one output name matches: st is the file system,
\* the host's files, output_files and whether an exception was raised.
\* os.makedirs raises when the output directory is already there, and
\* transport.receive when the file is gone.
RECURSIVE DelocalizeName(_, _, _, _)
DelocalizeName(st, jobId, name, todo) ==
    IF todo = {} \/ st.raised THEN st
    ELSE LET fullname == CHOOSE q \in todo : TRUE
             output_path == OutputPath(jobId, name, fullname)
             dirTaken == \E h \in st.host : Dirname(h) = Dirname(output_path)
         IN  IF dirTaken \/ ~Exists(st.fs, fullname)
             THEN [ st EXCEPT !.raised = TRUE ]
             ELSE DelocalizeName(
                    [ fs |-> RemoveFile(st.fs, fullname),
                      host |-> st.host \cup { output_path },
                      files |-> [ n \in DOMAIN st.files \cup { name } |->
                                    IF n = name THEN output_path ELSE st.files[n] ],
                      raised |-> FALSE ],
                    jobId, name, todo \ { fullname })

RECURSIVE DelocalizeNames(_, _, _, _, _)
DelocalizeNames(st, cfg, jobId, listing, k) ==
    IF k > Len(PatternOrder) \/ st.raised THEN st
    ELSE LET name == PatternOrder[k]
             start_dir == Join(Env(cfg).CANINE_JOBS, << C(jobId), C("workspace") >>)
             hit == IF name \in DOMAIN cfg.patterns
                    THEN { q \in listing : Matches(q, start_dir, cfg.patterns[name]) }
                    ELSE {}
         IN  DelocalizeNames(DelocalizeName(st, jobId, name, hit),
                             cfg, jobId, listing, k + 1)

\* The loop over the directories walk yields.
RECURSIVE DelocalizeDirs(_, _, _, _, _)
DelocalizeDirs(st, cfg, jobId, dirs, k) ==
    IF k > Len(dirs) \/ st.raised THEN st
    ELSE DelocalizeDirs(DelocalizeNames(st, cfg, jobId, Filenames(st.fs, dirs[k]), 1),
                        cfg, jobId, dirs, k + 1)

\* Localizer.delocalize(patterns, jobId=jobId), delete=True.
Delocalize(f, host, cfg, jobId) ==
    LET start_dir == Join(Env(cfg).CANINE_JOBS, << C(jobId), C("workspace") >>)
    IN  DelocalizeDirs([ fs |-> f, host |-> host, files |-> << >>, raised |-> FALSE ],
                       cfg, jobId, Walk(f, start_dir), 1)

----------------------------------------------------------------------------
(* Orchestrator.run_pipeline                                                *)

NoExc == [ op |-> "none", site |-> "none" ]

\* The array indices 0..N-1 of a job spec of N tasks, and their composite ids.
ArrayIndices(cfg) == 0..(Len(cfg.jobSpec) - 1)
ArrayJids(cfg, b) == { FormatJid(b, i) : i \in ArrayIndices(cfg) }

\* The tables sacct may return, by their rows for the elements w still waited
\* for (the loop reads no other row): any subset of them, each in any state.
AcctTables(w) ==
    UNION { [ d -> SlurmStates ] : d \in SUBSET w }

\* An operation of the backend or the transport returns, or raises; a
\* configuration of the planning specification is explored without faults.
Outcomes == IF config.faults THEN BOOLEAN ELSE { TRUE }

\* An exception raised by operation op at the current position: it leaves
\* through the scopes entered so far.
Raise(op, scope) ==
    /\ exc' = [ op |-> op, site |-> pc ]
    /\ pc' = scope

\* `with self.backend:` the backend's __enter__.
BackendEnter ==
    /\ pc = "start"
    /\ \E ok \in Outcomes :
         IF ok THEN pc' = "backend" /\ exc' = exc
         ELSE Raise("backend_enter", "raised")
    /\ UNCHANGED << config, fs, locInputs, commonInputs, jobIdx, batchId,
                    waiting, outputs, received, hist >>
    /\ UNCHANGED others

\* `with Localizer(self.backend, **self.localizer_args) as localizer:` the
\* constructor and __enter__, which makes the four staging directories.
LocalizerEnter ==
    /\ pc = "backend"
    /\ \E ok \in Outcomes :
         IF ok
         THEN /\ fs' = MkDir(MkDir(MkDir(MkDir(fs, Env(config).CANINE_ROOT),
                                         Env(config).CANINE_COMMON),
                                   Env(config).CANINE_OUTPUT),
                             Env(config).CANINE_JOBS)
              /\ pc' = "localizer" /\ exc' = exc
         ELSE fs' = fs /\ Raise("localizer_enter", "leave_backend")
    /\ UNCHANGED << config, locInputs, commonInputs, jobIdx, batchId,
                    waiting, outputs, received, hist >>
    /\ UNCHANGED others

\* localizer.localize(job_spec, self.localizer_overrides)
Localize ==
    /\ pc = "localizer"
    /\ \E ok \in Outcomes :
         IF ok
         THEN \E w \in CommonWinners(config, CommonInputs(config)) :
                LET st == LocalizePlan(fs, locInputs, config, w)
                IN  /\ fs' = st.fs
                    /\ locInputs' = st.inputs
                    /\ commonInputs' = commonInputs \cup CommonInputs(config)
                    /\ hist' = [ hist EXCEPT !.localizeReturned = TRUE ]
                    /\ pc' = "localized" /\ exc' = exc
         ELSE /\ UNCHANGED << fs, locInputs, commonInputs, hist >>
              /\ Raise("localize", "leave_localizer")
    /\ UNCHANGED << config, jobIdx, batchId, waiting, outputs, received >>
    /\ UNCHANGED others

\* A second call localizer.localize(job_spec, overrides) on the same
\* Localizer, with the arguments of the first: the method has no test of
\* whether it ran before.
LocalizeAgain ==
    /\ pc = "localized"
    /\ hist.localizeReturned
    /\ \E w \in CommonWinners(config, CommonInputs(config)) :
         LET st == LocalizePlan(fs, locInputs, config, w)
         IN  /\ fs' = st.fs
             /\ locInputs' = st.inputs
             /\ commonInputs' = commonInputs \cup CommonInputs(config)
    /\ pc' = "relocalized"
    /\ UNCHANGED << config, exc, jobIdx, batchId, waiting, outputs, received,
                    hist >>
    /\ UNCHANGED others

\* pack_batch_script to root_dir/script.sh, then entrypoint.sh written and
\* chmod'ed; root_dir is localizer.mount_path.
ScriptText == << C("#script") >>

\* config['script']: a list of lines, a string, a value of another type, or
\* no such key.
ListScript == [ type |-> "list", lines |-> ScriptText ]
StrScript(path) == [ type |-> "str", path |-> path ]
Scripts == { ListScript, StrScript(S1), StrScript(S2),
             [ type |-> "int" ], [ type |-> "missing" ] }

\* The checks Orchestrator.__init__ makes on the script: the exception it
\* raises, "none" when it raises none.
ScriptCheck(script) ==
    IF script.type = "missing" THEN "KeyError"
    ELSE IF script.type = "str" /\ ~IsFile(script.path) THEN "FileNotFoundError"
    ELSE IF script.type # "list" THEN "TypeError"
    ELSE "none"

\* Orchestrator(config)
Construct ==
    /\ pc = "new"
    /\ IF ScriptCheck(config.script) = "none"
       THEN pc' = "start" /\ exc' = exc
       ELSE Raise(ScriptCheck(config.script), "raised")
    /\ UNCHANGED << config, fs, locInputs, commonInputs, jobIdx, batchId,
                    waiting, outputs, received, hist >>
    /\ UNCHANGED others

\* The paths of entrypoint.sh and of the pipeline script, under root_dir.
EntrypointPath(cfg) == Join(cfg.mount_path, << << "entrypoint", "sh" >> >>)
PipelinePath(cfg) ==
    IF cfg.script.type = "str"
    THEN Join(cfg.mount_path, << Basename(cfg.script.path) >>)
    ELSE Join(cfg.mount_path, << << "script", "sh" >> >>)

\* What is written at the pipeline path: the script file sent there, or the
\* lines pack_batch_script packs.
PipelineText(cfg) ==
    IF cfg.script.type = "str" THEN cfg.script.path ELSE cfg.script.lines

\* ENTRYPOINT.format(..., pipeline_script=pipeline_path, **env) with
\* env = localizer.environment: the lines that carry a path.
EntrypointText(cfg) ==
    [ CANINE_ROOT |-> Environment(cfg).CANINE_ROOT,
      CANINE_COMMON |-> Environment(cfg).CANINE_COMMON,
      CANINE_OUTPUT |-> Environment(cfg).CANINE_OUTPUT,
      CANINE_JOBS |-> Environment(cfg).CANINE_JOBS,
      pipeline_script |-> PipelinePath(cfg) ]

\* The arguments of sbatch: the script, and the output and error paths
\* without their "%a/workspace/stdout" tails.
SbatchArgs(cfg) ==
    [ script |-> EntrypointPath(cfg),
      output |-> Environment(cfg).CANINE_JOBS,
      error |-> Environment(cfg).CANINE_JOBS ]

\* setup_text of localize_job: run_pipeline passes none.
SetupText == << >>

\* The setup texts a caller of localize_job passes: none, or one line.
SetupTexts == { SetupText, << C("#extra") >> }

Prepare ==
    /\ pc = "localized"
    /\ \E ok \in Outcomes :
         IF ok
         THEN /\ fs' = WriteFile(WriteFile(fs, PipelinePath(config), PipelineText(config)),
                                 EntrypointPath(config), EntrypointText(config))
              /\ pc' = "jobs" /\ exc' = exc
         ELSE fs' = fs /\ Raise("prepare", "leave_localizer")
    /\ UNCHANGED << config, locInputs, commonInputs, jobIdx, batchId,
                    waiting, outputs, received, hist >>
    /\ UNCHANGED others

\* The file system after localizer.localize_job(jobId): a stream or download
\* input gets its inputs directory (localize_file with delayed=True), then
\* setup.sh is written.
RECURSIVE DelayedDirs(_, _, _, _)
DelayedDirs(f, cfg, jobId, todo) ==
    IF todo = {} THEN f
    ELSE LET key == CHOOSE n \in todo : TRUE
         IN  DelayedDirs(LocalizeFile(f, cfg, jobId, locInputs[jobId][key].path, TRUE).fs,
                         cfg, jobId, todo \ { key })

\* A variant of JobKeys that lists the inputs fetched at task start only.
JobKeysFetched(inp) ==
    SelectSeq(NameOrder, LAMBDA n : n \in DOMAIN inp
                                     /\ inp[n].type \in { "stream", "download" })

\* The inputs of a task that localize_job lists and exports, in the order of
\* self.inputs[jobId].items(): those whose record has a known type.
JobKeys(inp) ==
    SelectSeq(NameOrder, LAMBDA n : n \in DOMAIN inp
                                     /\ inp[n].type \in { "stream", "download", "none" })

\* A variant of InputTasks that creates no fifo for a streamed input.
InputTasksNoFifo(val, dest) ==
    CASE val.type = "stream" ->
           << [ cmd |-> "gsutil cat &", src |-> ShQuote(Text(val.path)), dest |-> dest ] >>
      [] val.type = "download" ->
           << [ cmd |-> "gsutil cp", src |-> ShQuote(Text(val.path)), dest |-> dest ] >>
      [] OTHER -> << >>

\* The commands one input adds to extra_tasks, with dest the quoted path
\* localize_file(..., delayed=True) returned.
InputTasks(val, dest) ==
    CASE val.type = "stream" ->
           << [ cmd |-> "mkfifo", src |-> << >>, dest |-> dest ],
              [ cmd |-> "gsutil cat &", src |-> ShQuote(Text(val.path)), dest |-> dest ] >>
      [] val.type = "download" ->
           << [ cmd |-> "gsutil cp", src |-> ShQuote(Text(val.path)), dest |-> dest ] >>
      [] OTHER -> << >>

RECURSIVE ExtraTasks(_, _, _, _, _)
ExtraTasks(f, cfg, jobId, keys, k) ==
    IF k > Len(keys) THEN << >>
    ELSE LET val == locInputs[jobId][keys[k]]
             dest == ShQuote(Text(LocalizeFile(f, cfg, jobId, val.path, TRUE).path))
         IN  InputTasks(val, dest) \o ExtraTasks(f, cfg, jobId, keys, k + 1)

\* The script localize_job writes: CANINE_JOB_VARS, the four job paths, one
\* export per input whose record has a known type, the extra tasks, then
\* `cd $CANINE_JOB_ROOT` and setup_text. An export is kept as its name and
\* the word after the `=`.
SetupScript(f, cfg, jobId, setup_text) ==
    LET inp == locInputs[jobId]
        keys == JobKeys(inp)
        job == Join(Environment(cfg).CANINE_JOBS, << C(jobId) >>)
        value(n) == IF inp[n].type = "none" THEN inp[n].path
                    ELSE LocalizeFile(f, cfg, jobId, inp[n].path, TRUE).path
    IN  [ CANINE_JOB_VARS |-> [ k \in 1..Len(keys) |-> ShQuote(Chars(keys[k])) ],
          CANINE_JOB_INPUTS |-> Join(job, << C("inputs") >>),
          CANINE_JOB_ROOT |-> Join(job, << C("workspace") >>),
          CANINE_JOB_SETUP |-> Join(job, << << "setup", "sh" >> >>),
          CANINE_JOB_TEARDOWN |-> Join(job, << << "teardown", "sh" >> >>),
          exports |-> [ k \in 1..Len(keys) |->
                          [ name |-> keys[k],
                            word |-> << "\"" >> \o ShQuote(Text(value(keys[k])))
                                       \o << "\"" >> ] ],
          extra_tasks |-> << [ cmd |-> "cd $CANINE_JOB_INPUTS", src |-> << >>,
                               dest |-> << >> ] >>
                          \o ExtraTasks(f, cfg, jobId, keys, 1),
          cd |-> "$CANINE_JOB_ROOT",
          setup_text |-> setup_text ]

\* The commands of a setup script in the order of its text: the lines joined
\* by newlines (the exports of the job, the exports of the inputs, the extra
\* tasks), then '\ncd $CANINE_JOB_ROOT\n', then setup_text.
SetupCommands(script) ==
    << [ cmd |-> "export", name |-> "CANINE_JOB_VARS" ],
       [ cmd |-> "export", name |-> "CANINE_JOB_INPUTS" ],
       [ cmd |-> "export", name |-> "CANINE_JOB_ROOT" ],
       [ cmd |-> "export", name |-> "CANINE_JOB_SETUP" ],
       [ cmd |-> "export", name |-> "CANINE_JOB_TEARDOWN" ] >>
    \o [ k \in 1..Len(script.exports) |->
           [ cmd |-> "export", name |-> script.exports[k].name ] ]
    \o script.extra_tasks
    \o << [ cmd |-> "cd", dest |-> script.cd ] >>
    \o [ k \in 1..Len(script.setup_text) |->
           [ cmd |-> "setup_text", line |-> script.setup_text[k] ] ]

LocalizeJobFs(f, cfg, jobId, setup_text) ==
    LET delayed == { n \in DOMAIN locInputs[jobId] :
                       locInputs[jobId][n].type \in { "stream", "download" } }
        script_path == Join(Env(cfg).CANINE_JOBS, << C(jobId), << "setup", "sh" >> >>)
    IN  WriteFile(DelayedDirs(f, cfg, jobId, delayed), script_path,
                  SetupScript(f, cfg, jobId, setup_text))

\* A variant of LocalizeJob that drops the records of the task once its
\* setup.sh is written.
LocalizeJobForgetful ==
    /\ pc = "jobs"
    /\ jobIdx < Len(config.jobSpec)
    /\ LET job == config.jobSpec[jobIdx + 1]
       IN  /\ hist' = [ hist EXCEPT !.jobCalls = @ \cup { job } ]
           /\ fs' = LocalizeJobFs(fs, config, job, SetupText)
           /\ locInputs' = [ locInputs EXCEPT ![job] = << >> ]
           /\ jobIdx' = jobIdx + 1
    /\ UNCHANGED << config, pc, exc, commonInputs, batchId, waiting, outputs,
                    received >>
    /\ UNCHANGED others

\* One iteration of `for job in job_spec: localizer.localize_job(job, ...)`.
LocalizeJob ==
    /\ pc = "jobs"
    /\ jobIdx < Len(config.jobSpec)
    /\ LET job == config.jobSpec[jobIdx + 1]
       IN  /\ hist' = [ hist EXCEPT !.jobCalls = @ \cup { job } ]
           /\ \E ok \in Outcomes :
                IF ok
                THEN /\ fs' = LocalizeJobFs(fs, config, job, SetupText)
                     /\ jobIdx' = jobIdx + 1
                     /\ pc' = pc /\ exc' = exc
                ELSE /\ UNCHANGED << fs, jobIdx >>
                     /\ Raise("localize_job", "leave_localizer")
    /\ UNCHANGED << config, locInputs, commonInputs, batchId, waiting,
                    outputs, received >>
    /\ UNCHANGED others

\* No array element has started.
NoTask == [ at |-> "none" ]

\* localizer.localize_job(job, setup_text) called for the next task of the
\* job spec by a caller that passes a setup text.
LocalizeJobCall ==
    /\ pc = "jobs"
    /\ jobIdx < Len(config.jobSpec)
    /\ \E setup_text \in SetupTexts :
         LET job == config.jobSpec[jobIdx + 1]
         IN  /\ hist' = [ hist EXCEPT !.jobCalls = @ \cup { job } ]
             /\ fs' = LocalizeJobFs(fs, config, job, setup_text)
             /\ jobIdx' = jobIdx + 1
    /\ UNCHANGED << config, pc, exc, locInputs, commonInputs, batchId, waiting,
                    outputs, received >>
    /\ UNCHANGED others

\* SLURM starts array element i once every task is localized: the worker
\* runs entrypoint.sh, which sources $CANINE_JOBS/$SLURM_ARRAY_TASK_ID/setup.sh.
TaskStart ==
    /\ pc = "jobs"
    /\ jobIdx = Len(config.jobSpec)
    /\ task = NoTask
    /\ \E i \in 0..(Len(config.jobSpec) - 1) :
         /\ IsRegular(fs, Join(Env(config).CANINE_JOBS,
                               << C(Str(i)), << "setup", "sh" >> >>))
         /\ task' = [ at |-> "setup", index |-> Str(i), ip |-> 1,
                      env |-> {}, fifos |-> {}, launched |-> {}, running |-> {},
                      copied |-> {}, ran |-> << >> ]
    /\ UNCHANGED << config, pc, exc, fs, locInputs, commonInputs, jobIdx,
                    batchId, waiting, outputs, received, hist, backend,
                    requester_pays, cli, caller >>

\* The commands of the setup.sh the running element sources.
TaskCommands ==
    SetupCommands(fs[Join(Env(config).CANINE_JOBS,
                          << C(task.index), << "setup", "sh" >> >>)].src)

\* bash runs the next command of setup.sh: a command in the foreground has
\* ended when the next one starts, a command that ends with `&` is left
\* running.
TaskStep ==
    /\ task.at = "setup"
    /\ task.ip <= Len(TaskCommands)
    /\ LET c == TaskCommands[task.ip]
           t1 == [ task EXCEPT !.ip = @ + 1, !.ran = Append(@, c.cmd) ]
       IN  task' =
             CASE c.cmd = "export" -> [ t1 EXCEPT !.env = @ \cup { c.name } ]
               [] c.cmd = "mkfifo" -> [ t1 EXCEPT !.fifos = @ \cup { c.dest } ]
               [] c.cmd = "gsutil cat &" ->
                    [ t1 EXCEPT !.launched = @ \cup { c.dest },
                                !.running = @ \cup { c.dest } ]
               [] c.cmd = "gsutil cp" -> [ t1 EXCEPT !.copied = @ \cup { c.dest } ]
               [] OTHER -> t1
    /\ UNCHANGED << config, pc, exc, fs, locInputs, commonInputs, jobIdx,
                    batchId, waiting, outputs, received, hist, backend,
                    requester_pays, cli, caller >>

\* setup.sh is at its end: entrypoint.sh goes on to the pipeline script.
ScriptStarts ==
    /\ task.at = "setup"
    /\ task.ip > Len(TaskCommands)
    /\ task' = [ task EXCEPT !.at = "script" ]
    /\ UNCHANGED << config, pc, exc, fs, locInputs, commonInputs, jobIdx,
                    batchId, waiting, outputs, received, hist, backend,
                    requester_pays, cli, caller >>

\* A stream fetch left in the background ends.
FetchEnds ==
    /\ task.at \in { "setup", "script" }
    /\ \E d \in task.running : task' = [ task EXCEPT !.running = @ \ { d } ]
    /\ UNCHANGED << config, pc, exc, fs, locInputs, commonInputs, jobIdx,
                    batchId, waiting, outputs, received, hist, backend,
                    requester_pays, cli, caller >>

\* A variant of WaitForClusterReady that does not wait for the end of the loop
\* over the tasks (orchestrator.py 163-166 with the call hoisted into the loop).
WaitForClusterReadyEarly ==
    /\ pc = "jobs"
    /\ hist' = [ hist EXCEPT !.ready = TRUE ]
    /\ pc' = "submit"
    /\ UNCHANGED << config, exc, fs, locInputs, commonInputs, jobIdx, batchId,
                    waiting, outputs, received >>
    /\ UNCHANGED others

\* self.backend.wait_for_cluster_ready(), once the loop over the tasks ended.
WaitForClusterReady ==
    /\ pc = "jobs"
    /\ jobIdx = Len(config.jobSpec)
    /\ \E ok \in Outcomes :
         IF ok
         THEN /\ hist' = [ hist EXCEPT !.ready = TRUE ]
              /\ pc' = "submit" /\ exc' = exc
         ELSE hist' = hist /\ Raise("wait_for_cluster_ready", "leave_localizer")
    /\ UNCHANGED << config, fs, locInputs, commonInputs, jobIdx, batchId,
                    waiting, outputs, received >>
    /\ UNCHANGED others

\* A variant of AfterPoll that leaves the loop after its first round.
AfterPollOnce(w) == "leave_localizer"

\* A variant of AfterPoll under which the loop never ends.
AfterPollForever(w) == "poll"

\* A variant of AfterPoll that submits the array again once the loop ends.
AfterPollResubmit(w) == IF w = {} THEN "submit" ELSE "poll"

\* `while len(waiting_jobs):` the loop goes on while an element is waited for.
AfterPoll(w) == IF w = {} THEN "leave_localizer" ELSE "poll"

\* SLURM opens each array element's output file, <jobs>/%a/workspace/stdout,
\* where that directory exists.
RECURSIVE TaskOutput(_, _, _)
TaskOutput(f, cfg, todo) ==
    IF todo = {} THEN f
    ELSE LET i == CHOOSE x \in todo : TRUE
             ws == Join(Env(cfg).CANINE_JOBS, << C(Str(i)), C("workspace") >>)
         IN  TaskOutput(IF IsDir(f, ws)
                        THEN WriteFile(f, Join(ws, << C("stdout") >>), << C("#stdout") >>)
                        ELSE f,
                        cfg, todo \ { i })

\* batch_id = self.backend.sbatch(entrypoint_path, array="0-<N-1>", ...) and
\* the waiting set built from it.
Sbatch ==
    /\ pc = "submit"
    /\ \E ok \in Outcomes :
         IF ok
         THEN \E b \in BatchIds :
                /\ batchId' = b
                /\ waiting' = ArrayJids(config, b)
                /\ fs' = TaskOutput(fs, config, ArrayIndices(config))
                /\ hist' = [ hist EXCEPT !.sbatchCalls = @ + 1,
                                         !.waitingStart = waiting' ]
                /\ pc' = AfterPoll(waiting')
                /\ exc' = exc
         ELSE /\ UNCHANGED << batchId, waiting, fs >>
              /\ hist' = [ hist EXCEPT !.sbatchCalls = @ + 1 ]
              /\ Raise("sbatch", "leave_localizer")
    /\ UNCHANGED << config, locInputs, commonInputs, jobIdx, outputs, received >>
    /\ UNCHANGED others

\* A variant of Ready that handles the elements reported COMPLETED only.
ReadyCompleted(w, acct) ==
    { jid \in w : jid \in DOMAIN acct /\ acct[jid] = "COMPLETED" }

\* The elements of the waiting set one iteration of the poll loop handles:
\* `jid in acct.index and acct['State'][jid] not in {'RUNNING', 'PENDING'}`.
Ready(w, acct) ==
    { jid \in w : jid \in DOMAIN acct /\ acct[jid] \notin { "RUNNING", "PENDING" } }

\* A variant of Remaining that keeps every element in the waiting set.
RemainingAll(w, done) == w

\* `waiting_jobs.remove(jid)` for every element whose delocalize returned.
Remaining(w, done) == w \ done

\* The state after the delocalize calls of one iteration: those for `done`
\* returned, the one for `failed` (at most one element) raised. The calls
\* touch disjoint paths, so each is computed from the state before.
PollEffects(done, failed, acct, D) ==
    LET touched == done \cup { f \in failed : D[f].raised }
        removed == UNION { DOMAIN fs \ DOMAIN D[j].fs : j \in touched }
        called == { SplitJob(j) : j \in done \cup failed }
        jidOf(job) == CHOOSE j \in done \cup failed : SplitJob(j) = job
        ended == { j \in waiting \cap DOMAIN acct : acct[j] \notin { "RUNNING", "PENDING" } }
        seen == [ job \in DOMAIN hist.seen \cup { SplitJob(j) : j \in ended } |->
                    IF \E j \in ended : SplitJob(j) = job
                    THEN acct[CHOOSE j \in ended : SplitJob(j) = job]
                    ELSE hist.seen[job] ]
    IN  /\ waiting' = Remaining(waiting, done)
        /\ hist' = [ hist EXCEPT
                       !.seen = seen,
                       !.delocCount = [ job \in DOMAIN @ \cup called |->
                                          IF job \in called
                                          THEN (IF job \in DOMAIN @ THEN @[job] ELSE 0) + 1
                                          ELSE @[job] ],
                       !.delocState = [ job \in DOMAIN @ \cup called |->
                                          IF job \in called THEN acct[jidOf(job)]
                                          ELSE @[job] ] ]
        /\ outputs' = [ job \in DOMAIN outputs \cup { SplitJob(j) : j \in done } |->
                          IF \E j \in done : SplitJob(j) = job
                          THEN D[CHOOSE j \in done : SplitJob(j) = job].files
                          ELSE outputs[job] ]
        /\ received' = received \cup UNION { D[j].host : j \in touched }
        /\ fs' = [ q \in DOMAIN fs \ removed |-> fs[q] ]

\* One iteration of `while len(waiting_jobs):` sleep, sacct, and delocalize
\* for every waiting element the table reports as neither running nor pending.
Poll ==
    /\ pc = "poll"
    /\ \E ok \in Outcomes :
         IF ok
         THEN LET D == [ j \in waiting |->
                          Delocalize(fs, received, config, SplitJob(j)) ]
              IN  \E acct \in AcctTables(waiting) :
                    LET ready == Ready(waiting, acct)
                        good == { j \in ready : ~D[j].raised }
                        bad == { j \in ready : j \notin good \/ FALSE \in Outcomes }
                    IN  \/ /\ ready = good
                           /\ PollEffects(ready, {}, acct, D)
                           /\ pc' = AfterPoll(waiting')
                           /\ exc' = exc
                        \/ \E f \in bad : \E done \in SUBSET (good \ { f }) :
                             /\ PollEffects(done, { f }, acct, D)
                             /\ Raise("delocalize", "leave_localizer")
         ELSE /\ UNCHANGED << fs, received, outputs, waiting, hist >>
              /\ Raise("sacct", "leave_localizer")
    /\ UNCHANGED << config, locInputs, commonInputs, jobIdx, batchId >>
    /\ UNCHANGED others

\* A variant of ExitCleans that cleans on every exit.
ExitCleansAlways(e) == TRUE

\* Localizer.__exit__(*args) cleans when no argument is not None, that is
\* when no exception is leaving the scope.
ExitCleans(e) == e = NoExc

\* A variant of LocalizerExit whose __exit__ returns a true value: the exception
\* in flight is suppressed and the pipeline goes on after the scope.
LocalizerExitSuppressing ==
    /\ pc = "leave_localizer"
    /\ fs' = IF ExitCleans(exc) THEN RmRf(fs, Env(config).CANINE_ROOT) ELSE fs
    /\ hist' = [ hist EXCEPT !.exits =
                   Append(@, IF exc = NoExc THEN "Localizer.clean"
                             ELSE "Localizer.faulted") ]
    /\ exc' = NoExc
    /\ pc' = "parse"
    /\ UNCHANGED << config, locInputs, commonInputs, jobIdx, batchId,
                    waiting, outputs, received >>
    /\ UNCHANGED others

\* The end of the `with Localizer(...)` block: __exit__ runs `rm -rf` on the
\* staging directory on a clean exit; it returns None, so an exception in
\* flight goes on to the backend's scope.
LocalizerExit ==
    /\ pc = "leave_localizer"
    /\ fs' = IF ExitCleans(exc) THEN RmRf(fs, Env(config).CANINE_ROOT) ELSE fs
    /\ hist' = [ hist EXCEPT !.exits =
                   Append(@, IF exc = NoExc THEN "Localizer.clean"
                             ELSE "Localizer.faulted") ]
    /\ pc' = IF exc = NoExc THEN "parse" ELSE "leave_backend"
    /\ UNCHANGED << config, exc, locInputs, commonInputs, jobIdx, batchId,
                    waiting, outputs, received >>
    /\ UNCHANGED others

\* self.adapter.parse_outputs(outputs)
ParseOutputs ==
    /\ pc = "parse"
    /\ hist' = [ hist EXCEPT !.parseCalls = @ + 1, !.parsed = outputs ]
    /\ \E ok \in Outcomes :
         IF ok THEN pc' = "final_sacct" /\ exc' = exc
         ELSE Raise("parse_outputs", "leave_backend")
    /\ UNCHANGED << config, fs, locInputs, commonInputs, jobIdx, batchId,
                    waiting, outputs, received >>
    /\ UNCHANGED others

\* return batch_id, job_spec, self.backend.sacct()
FinalSacct ==
    /\ pc = "final_sacct"
    /\ \E ok \in Outcomes :
         IF ok
         THEN /\ hist' = [ hist EXCEPT !.retval =
                             [ batch_id |-> batchId, job_spec |-> config.jobSpec,
                               acct |-> "final_sacct" ] ]
              /\ pc' = "leave_backend" /\ exc' = exc
         ELSE hist' = hist /\ Raise("sacct", "leave_backend")
    /\ UNCHANGED << config, fs, locInputs, commonInputs, jobIdx, batchId,
                    waiting, outputs, received >>
    /\ UNCHANGED others

\* The end of the `with self.backend:` block: the backend's __exit__, then the
\* value is returned or the exception reaches the caller.
BackendExit ==
    /\ pc = "leave_backend"
    /\ hist' = [ hist EXCEPT !.exits = Append(@, "Backend") ]
    /\ pc' = IF exc = NoExc THEN "returned" ELSE "raised"
    /\ UNCHANGED << config, exc, fs, locInputs, commonInputs, jobIdx, batchId,
                    waiting, outputs, received >>
    /\ UNCHANGED others

----------------------------------------------------------------------------
(* Specifications                                                           *)

NoRetval == [ batch_id |-> "none", job_spec |-> << >>, acct |-> "none" ]

\* A backend that holds no resources of its own (LocalSlurmBackend), and a
\* run_pipeline that is called directly, with no command line.
NoBackend == [ type |-> "Local" ]
NoCli == [ used |-> FALSE ]
NoCaller == [ used |-> FALSE ]

\* The state at position at for configuration cfg, before anything ran.
Begin(cfg, at) ==
    /\ config = cfg
    /\ pc = at
    /\ exc = NoExc
    /\ fs = [ q \in { cfg.mount_path } \ { StagingDir } |-> Dir ]
    /\ locInputs = << >>
    /\ commonInputs = {}
    /\ jobIdx = 0
    /\ batchId = "none"
    /\ waiting = {}
    /\ outputs = << >>
    /\ received = {}
    /\ hist = [ localizeReturned |-> FALSE, jobCalls |-> {}, ready |-> FALSE,
                sbatchCalls |-> 0, delocCount |-> << >>, delocState |-> << >>,
                parseCalls |-> 0, parsed |-> << >>, exits |-> << >>,
                seen |-> << >>, waitingStart |-> {}, retval |-> NoRetval,
                probes |-> << >>, pays |-> << >> ]
    /\ requester_pays = << >>
    /\ task = NoTask

\* The state after Orchestrator.__init__ for configuration cfg.
Start(cfg) ==
    Begin(cfg, "start") /\ backend = NoBackend /\ cli = NoCli /\ caller = NoCaller

\* Job specs of the pipeline specification: up to MaxTasks tasks, their ids
\* the array indices or not, every task with the same input a.
PipelineJobSpecs ==
    { SubSeq(TaskOrder, 1, n) : n \in 0..MaxTasks }
    \cup { SubSeq(TaskOrder, 2, n + 1) : n \in 1..MaxTasks }

PipelineConfigs ==
    { [ jobSpec |-> js,
        inputs |-> [ t \in { js[k] : k \in 1..Len(js) } |-> ("a" :> v) ],
        overrides |-> ov,
        common |-> TRUE,
        localize_gs |-> TRUE,
        mount_path |-> m,
        patterns |-> ("log" :> << C("stdout") >>),
        script |-> ListScript,
        faults |-> TRUE ] :
      js \in PipelineJobSpecs, v \in { F1, L1 },
      ov \in { << >> }, m \in MountPaths }

Init == \E cfg \in PipelineConfigs : Start(cfg)

Next ==
    \/ BackendEnter
    \/ LocalizerEnter
    \/ Localize
    \/ Prepare
    \/ LocalizeJob
    \/ WaitForClusterReady
    \/ Sbatch
    \/ Poll
    \/ LocalizerExit
    \/ ParseOutputs
    \/ FinalSacct
    \/ BackendExit

Spec == Init /\ [][Next]_vars

\* The pipeline as a running process in which no operation raises:
\* run_pipeline goes on executing, so the step it is at is eventually taken.
LiveConfigs ==
    { [ cfg EXCEPT !.faults = FALSE ] :
        cfg \in { c \in PipelineConfigs :
                    /\ c.jobSpec = SubSeq(TaskOrder, 1, Len(c.jobSpec))
                    /\ c.mount_path = StagingDir } }

LiveInit == \E cfg \in LiveConfigs : Start(cfg)

LiveSpec == LiveInit /\ [][Next]_vars /\ WF_vars(Next)

\* The planning specification: localize and the steps up to the moment sbatch
\* is called, from the state after Localizer.__enter__, over job specs of one
\* or two tasks with at most MaxInputs inputs in all, at most one overridden
\* input name, and a mount path that differs from the staging directory.
PlanJobSpecs == { << "0" >>, << "0", "1" >> }

InputMaps == UNION { [ d -> Values ] : d \in SUBSET InputNames }

PlanInputs(js) ==
    LET tasks == { js[k] : k \in 1..Len(js) }
        size(inp) == Cardinality({ tn \in tasks \X InputNames :
                                     tn[2] \in DOMAIN inp[tn[1]] })
    IN  { inp \in [ tasks -> InputMaps ] : size(inp) <= MaxInputs }

PlanOverrides ==
    { << >> } \cup { (n :> r) : n \in InputNames, r \in RawOverrides }

PlanConfigs ==
    { [ jobSpec |-> js,
        inputs |-> inp,
        overrides |-> ov,
        common |-> c,
        localize_gs |-> g,
        mount_path |-> << C("mnt") >>,
        patterns |-> ("log" :> << C("stdout") >>),
        script |-> ListScript,
        faults |-> FALSE ] :
      js \in PlanJobSpecs, inp \in UNION { PlanInputs(j) : j \in PlanJobSpecs },
      ov \in PlanOverrides, c \in BOOLEAN, g \in BOOLEAN }

\* The state in which localize is called for configuration cfg: the Localizer
\* has been entered.
PlanStart(cfg) ==
      /\ config = cfg
      /\ pc = "localizer"
      /\ exc = NoExc
      /\ fs = [ q \in { cfg.mount_path, Env(cfg).CANINE_ROOT, Env(cfg).CANINE_COMMON,
                        Env(cfg).CANINE_OUTPUT, Env(cfg).CANINE_JOBS } |-> Dir ]
      /\ locInputs = << >>
      /\ commonInputs = {}
      /\ jobIdx = 0
      /\ batchId = "none"
      /\ waiting = {}
      /\ outputs = << >>
      /\ received = {}
      /\ hist = [ localizeReturned |-> FALSE, jobCalls |-> {}, ready |-> FALSE,
                  sbatchCalls |-> 0, delocCount |-> << >>, delocState |-> << >>,
                  parseCalls |-> 0, parsed |-> << >>, exits |-> << >>,
                  seen |-> << >>, waitingStart |-> {}, retval |-> NoRetval,
                  probes |-> << >>, pays |-> << >> ]
      /\ backend = NoBackend
      /\ requester_pays = << >>
      /\ task = NoTask
      /\ cli = NoCli
      /\ caller = NoCaller

PlanInit ==
    \E cfg \in PlanConfigs :
      /\ DOMAIN cfg.inputs = { cfg.jobSpec[k] : k \in 1..Len(cfg.jobSpec) }
      /\ PlanStart(cfg)

PlanNext ==
    \/ Localize
    \/ Prepare
    \/ LocalizeJob
    \/ WaitForClusterReady

PlanSpec == PlanInit /\ [][PlanNext]_vars

\* localize, localize_job with or without a setup text, and the run of one
\* array element, for one task with at most two inputs.
SetupConfigs == { cfg \in PlanConfigs : cfg.jobSpec = << "0" >> /\ cfg.common }

SetupInit ==
    \E cfg \in SetupConfigs :
      /\ DOMAIN cfg.inputs = { "0" }
      /\ PlanStart(cfg)

SetupNext ==
    \/ Localize
    \/ Prepare
    \/ LocalizeJobCall
    \/ TaskStart
    \/ TaskStep
    \/ ScriptStarts
    \/ FetchEnds

SetupSpec == SetupInit /\ [][SetupNext]_vars

\* localize called twice on one Localizer.
AgainSpec == SetupInit /\ [][Localize \/ LocalizeAgain]_vars

\* The planning steps for tasks whose one input is a literal, some of them
\* with characters a shell treats specially.
Literals == { L1, << C("hey!") >>, << C("hey you") >>, << C("it's") >> }

LiteralConfigs ==
    { [ jobSpec |-> js,
        inputs |-> inp,
        overrides |-> << >>,
        common |-> c,
        localize_gs |-> g,
        mount_path |-> << C("mnt") >>,
        patterns |-> ("log" :> << C("stdout") >>),
        script |-> ListScript,
        faults |-> FALSE ] :
      js \in PlanJobSpecs,
      inp \in UNION { [ { j[k] : k \in 1..Len(j) } -> [ { "a" } -> Literals ] ] :
                        j \in PlanJobSpecs },
      c \in BOOLEAN, g \in BOOLEAN }

LiteralInit ==
    \E cfg \in LiteralConfigs :
      /\ DOMAIN cfg.inputs = { cfg.jobSpec[k] : k \in 1..Len(cfg.jobSpec) }
      /\ PlanStart(cfg)

LiteralSpec == LiteralInit /\ [][PlanNext]_vars

\* The files a task's script may write below its workspace, by their paths
\* relative to it.
WorkFiles ==
    { << << "a", "txt" >> >>, << << "b", "txt" >> >>,
      << C("sub"), << "c", "txt" >> >>, << << "file", "tar", "gz" >> >> }

\* A running task writes one more file into its workspace.
TaskWrites ==
    /\ pc = "poll"
    /\ \E job \in { config.jobSpec[k] : k \in 1..Len(config.jobSpec) } :
       \E w \in WorkFiles :
         LET path == Join(Env(config).CANINE_JOBS, << C(job), C("workspace") >> \o w)
         IN  /\ IsDir(fs, Join(Env(config).CANINE_JOBS, << C(job), C("workspace") >>))
             /\ ~Exists(fs, path)
             /\ fs' = WriteFile(MakeDirs(fs, Dirname(path)), path, << C("#work") >>)
    /\ UNCHANGED << config, pc, exc, locInputs, commonInputs, jobIdx, batchId,
                    waiting, outputs, received, hist >>
    /\ UNCHANGED others

\* outputs[job] = localizer.delocalize(self.raw_outputs, jobId=job) for one
\* task, as the poll loop calls it.
DelocalizeCall ==
    /\ pc = "poll"
    /\ \E j \in waiting :
         LET job == SplitJob(j)
             D == Delocalize(fs, received, config, job)
         IN  /\ fs' = D.fs
             /\ received' = D.host
             /\ IF D.raised
                THEN /\ outputs' = outputs
                     /\ Raise("delocalize", "leave_localizer")
                ELSE /\ outputs' = [ t \in DOMAIN outputs \cup { job } |->
                                       IF t = job THEN D.files ELSE outputs[t] ]
                     /\ pc' = "delocalized" /\ exc' = exc
    /\ UNCHANGED << config, locInputs, commonInputs, jobIdx, batchId, waiting, hist >>
    /\ UNCHANGED others

\* The output patterns: a file name, globs, a path relative to the
\* workspace and an absolute path.
DelocPatterns ==
    { ("log" :> << C("stdout") >>),
      ("out" :> << << "*", "txt" >> >>),
      ("log" :> << C("stdout") >>) @@ ("out" :> << << "*", "gz" >> >>),
      ("log" :> << C("stdout") >>) @@ ("out" :> << C("sub"), << "c", "txt" >> >>),
      ("log" :> << C("stdout") >>) @@ ("out" :> << << "a", "txt" >> >>),
      ("log" :> << << "a", "txt" >> >>) @@ ("out" :> << << "*", "txt" >> >>),
      ("out" :> Join(StagingDir, << C("jobs"), C("0"), C("workspace"), << "b", "txt" >> >>)) }

DelocConfigs ==
    { [ jobSpec |-> << "0" >>,
        inputs |-> ("0" :> << >>),
        overrides |-> << >>,
        common |-> TRUE,
        localize_gs |-> TRUE,
        mount_path |-> << C("mnt") >>,
        patterns |-> pats,
        script |-> ListScript,
        faults |-> FALSE ] : pats \in DelocPatterns }

DelocInit == \E cfg \in DelocConfigs : PlanStart(cfg)

DelocNext ==
    \/ Localize \/ Prepare \/ LocalizeJob \/ WaitForClusterReady \/ Sbatch
    \/ TaskWrites \/ DelocalizeCall

DelocSpec == DelocInit /\ [][DelocNext]_vars

\* Localizer.get_requester_pays(path): the gs:// prefix is cut off, the
\* bucket is what comes before the first slash, and the command probed is
\* `gsutil ls gs://<path>` with the path as it is after the cut.
Unprefixed(path) == IF IsGs(path) THEN Tail(path) ELSE path
Bucket(path) == Unprefixed(path)[1]
ProbeCommand(path) == [ cmd |-> "gsutil ls", url |-> << C("gs:") >> \o Unprefixed(path) ]

\* The cloud URIs get_requester_pays is called with: objects of three
\* buckets, and a bucket.
G2 == << C("gs:"), C("b"), << "p", "txt" >> >>
G3 == << C("gs:"), C("c"), << "o", "txt" >> >>
G4 == << C("gs:"), C("c") >>
G5 == << C("gs:"), C("e"), C("dir"), << "o", "txt" >> >>
ProbePaths == { G1, G2, G3, G4, G5 }

\* One call of get_requester_pays, on any Localizer: the memo is the class
\* attribute. The backend's invoke returns the streams of gsutil, which hold
\* the requester-pays message or not; it does not raise on a failed command.
GetRequesterPays ==
    /\ pc = "localizer"
    /\ \E path \in ProbePaths :
         LET bucket == Bucket(path)
         IN  /\ IF bucket \notin DOMAIN requester_pays
                THEN \E message \in BOOLEAN :
                       /\ requester_pays' = requester_pays @@ (bucket :> message)
                       /\ hist' = [ hist EXCEPT
                                      !.probes = Append(@, ProbeCommand(path)),
                                      !.pays = [ path |-> path, result |-> message ] ]
                ELSE /\ requester_pays' = requester_pays
                     /\ hist' = [ hist EXCEPT
                                    !.pays = [ path |-> path,
                                               result |-> requester_pays[bucket] ] ]
    /\ UNCHANGED << config, pc, exc, fs, locInputs, commonInputs, jobIdx, batchId,
                    waiting, outputs, received, backend, cli, task, caller >>

\* Largest number of worker containers of the container backend.
MaxWorkers == 2

\* The controller container; the workers are 1, 2, ...
Controller == 0

\* str.strip() of a script given as its characters.
RECURSIVE LStrip(_)
LStrip(t) == IF Len(t) > 0 /\ Head(t) = " " THEN LStrip(Tail(t)) ELSE t
RECURSIVE RStrip(_)
RStrip(t) ==
    IF Len(t) > 0 /\ t[Len(t)] = " " THEN RStrip(SubSeq(t, 1, Len(t) - 1)) ELSE t
Strip(t) == RStrip(LStrip(t))

\* DummySlurmBackend.__init__: the configuration is saved, nothing is started.
DummyBackend(n, controller_script, compute_script) ==
    [ type |-> "Dummy",
      n_workers |-> n,
      controller_script |-> controller_script,
      compute_script |-> compute_script,
      bind_path |-> "None",
      port |-> "None",
      controller |-> "None",
      workers |-> << >>,
      startup_callbacks |-> << >>,
      \* the world outside the object: the containers that run, the temporary
      \* directory, whether the wait for the sentinel ended and whether the
      \* sentinel was seen, the callbacks that ended, those that ended with an
      \* exception, whether one ended while the orchestrator was localizing,
      \* and the calls made
      running |-> {},
      tmpdir |-> FALSE,
      waited |-> FALSE,
      ready |-> FALSE,
      done |-> {},
      failed |-> {},
      overlapped |-> FALSE,
      entered |-> FALSE,
      exits |-> << >> ]

\* The startup scripts: none, blank, and a command.
StartupScripts == { << >>, << " " >>, << "x" >> }

DummyBackends ==
    { DummyBackend(n, cs, ws) :
        n \in 1..MaxWorkers, cs \in StartupScripts, ws \in StartupScripts }

\* The list 1..k of the workers found.
Found(k) == [ i \in 1..k |-> i ]

\* The callbacks __enter__ dispatches, by the container each runs in.
StartupCallbacks(b, workers) ==
    (IF Len(Strip(b.controller_script)) > 0 THEN << Controller >> ELSE << >>)
    \o (IF Len(Strip(b.compute_script)) > 0 THEN workers ELSE << >>)

\* DummySlurmBackend.__enter__ under `with self.backend:`. The controller
\* container is launched, or docker refuses; the transport to it opens, or
\* fails; the wait ends when the sentinel is seen or when the controller is no
\* longer running; k workers are then found. An exception leaves the `with`
\* statement without any call of __exit__.
DummyEnter ==
    /\ pc = "start"
    /\ backend.type = "Dummy"
    /\ LET b0 == [ backend EXCEPT !.port = "port", !.bind_path = "tmp",
                                  !.tmpdir = TRUE ]
       IN  \E launched \in BOOLEAN, connects \in BOOLEAN, ready \in BOOLEAN :
           \E k \in 0..MaxWorkers :
              LET up == (IF ready THEN { Controller } ELSE {}) \cup (1..k)
                  b1 == [ b0 EXCEPT !.controller = "ctl", !.running = up,
                                    !.ready = ready ]
                  b2 == [ b1 EXCEPT !.workers = Found(k), !.waited = TRUE ]
              IN  IF ~launched
                  THEN backend' = b0 /\ Raise("APIError", "raised")
                  ELSE IF ~connects
                  THEN backend' = [ b1 EXCEPT !.ready = FALSE ]
                       /\ Raise("SSHException", "raised")
                  ELSE IF k # backend.n_workers
                  THEN backend' = b2 /\ Raise("RuntimeError", "raised")
                  ELSE /\ backend' = [ b2 EXCEPT
                                         !.startup_callbacks =
                                            StartupCallbacks(backend, Found(k)),
                                         !.entered = TRUE ]
                       /\ pc' = "backend" /\ exc' = exc
    /\ UNCHANGED << config, fs, locInputs, commonInputs, jobIdx, batchId,
                    waiting, outputs, received, hist, requester_pays, cli, task, caller >>

\* The thread of one startup callback ends: container.exec_run returned, or
\* raised because the container does not run.
CallbackRuns ==
    /\ backend.type = "Dummy"
    /\ pc \notin { "returned", "raised" }
    /\ \E i \in (1..Len(backend.startup_callbacks)) \ backend.done :
         backend' = [ backend EXCEPT
                        !.done = @ \cup { i },
                        !.failed = IF backend.startup_callbacks[i] \in backend.running
                                   THEN @ ELSE @ \cup { i },
                        !.overlapped = @ \/ pc \in { "localizer", "localized", "jobs" } ]
    /\ UNCHANGED << config, pc, exc, fs, locInputs, commonInputs, jobIdx,
                    batchId, waiting, outputs, received, hist, requester_pays,
                    cli, task, caller >>

\* The first callback, in the order of the list, that has not ended or that
\* ended with an exception.
FirstOpen(b) ==
    LET open == { i \in 1..Len(b.startup_callbacks) :
                    i \notin b.done \/ i \in b.failed }
    IN  IF open = {} THEN Len(b.startup_callbacks) + 1
        ELSE CHOOSE i \in open : \A j \in open : i <= j

\* A variant of Drain that does not call the callbacks.
DrainNoWait(b) == "returned"

\* `for callback in self.startup_callbacks: callback()`: each call blocks
\* until its thread ended and raises what the thread raised.
Drain(b) ==
    IF FirstOpen(b) > Len(b.startup_callbacks) THEN "returned"
    ELSE IF FirstOpen(b) \in b.failed THEN "raised"
    ELSE "blocked"

\* DummySlurmBackend.wait_for_cluster_ready, once the loop over the tasks
\* ended: the callbacks are drained, then the wait of the base class.
DummyWaitForClusterReady ==
    /\ backend.type = "Dummy"
    /\ pc = "jobs"
    /\ jobIdx = Len(config.jobSpec)
    /\ Drain(backend) # "blocked"
    /\ IF Drain(backend) = "raised"
       THEN hist' = hist /\ Raise("startup_callback", "leave_localizer")
       ELSE \E ok \in Outcomes :
              IF ok
              THEN /\ hist' = [ hist EXCEPT !.ready = TRUE ]
                   /\ pc' = "submit" /\ exc' = exc
              ELSE hist' = hist /\ Raise("wait_for_cluster_ready", "leave_localizer")
    /\ UNCHANGED << config, fs, locInputs, commonInputs, jobIdx, batchId,
                    waiting, outputs, received >>
    /\ UNCHANGED others

\* The body of DummySlurmBackend.__exit__ when the stop of container fail
\* raises (no stop raises when fail is -1): the workers are stopped in the
\* order of the list, then the controller, then the bind directory is
\* removed and bind_path and port are reset.
ExitBody(b, fail) ==
    LET pos == IF fail = Controller THEN Len(b.workers) + 1
               ELSE IF fail \in { b.workers[j] : j \in 1..Len(b.workers) }
               THEN CHOOSE j \in 1..Len(b.workers) : b.workers[j] = fail
               ELSE Len(b.workers) + 2
        stopped == { b.workers[j] : j \in 1..Len(b.workers) \cap 1..(pos - 1) }
                   \cup (IF pos > Len(b.workers) + 1 THEN { Controller } ELSE {})
        b1 == [ b EXCEPT !.running = @ \ stopped ]
    IN  IF pos <= Len(b.workers) + 1
        THEN [ b1 EXCEPT !.exits = Append(@, "APIError") ]
        ELSE IF b.bind_path = "None"
        THEN [ b1 EXCEPT !.exits = Append(@, "AttributeError") ]
        ELSE [ b1 EXCEPT !.tmpdir = FALSE, !.bind_path = "None",
                         !.port = "None", !.exits = Append(@, "none") ]

\* The containers whose stop can raise: those that run.
StopFailures(b) ==
    { -1 } \cup (b.running \cap ({ Controller } \cup
                                  { b.workers[j] : j \in 1..Len(b.workers) }))

\* The end of `with self.backend:`: __exit__ is called; an exception of its
\* own replaces the one that was leaving.
DummyExit ==
    /\ backend.type = "Dummy"
    /\ pc = "leave_backend"
    /\ \E fail \in StopFailures(backend) :
         /\ backend' = ExitBody(backend, fail)
         /\ LET error == backend'.exits[Len(backend'.exits)]
            IN  IF error = "none"
                THEN /\ exc' = exc
                     /\ pc' = IF exc = NoExc THEN "returned" ELSE "raised"
                ELSE /\ exc' = [ op |-> error, site |-> pc ]
                     /\ pc' = "raised"
    /\ hist' = [ hist EXCEPT !.exits = Append(@, "Backend") ]
    /\ UNCHANGED << config, fs, locInputs, commonInputs, jobIdx, batchId,
                    waiting, outputs, received, requester_pays, cli, task, caller >>

\* A second call of __exit__ on the backend, after run_pipeline ended.
DummyExitAgain ==
    /\ backend.type = "Dummy"
    /\ pc \in { "returned", "raised" }
    /\ Len(backend.exits) = 1
    /\ \E fail \in StopFailures(backend) : backend' = ExitBody(backend, fail)
    /\ UNCHANGED << config, pc, exc, fs, locInputs, commonInputs, jobIdx,
                    batchId, waiting, outputs, received, hist, requester_pays,
                    cli, task, caller >>

\* run_pipeline of a job spec of one task on the container backend, in which
\* no operation of the pipeline itself raises: the faults are those of the
\* backend.
DummyConfigs == { cfg \in LiveConfigs : Len(cfg.jobSpec) = 1 }

DummyInit ==
    \E cfg \in DummyConfigs : \E b \in DummyBackends :
       Begin(cfg, "start") /\ backend = b /\ cli = NoCli /\ caller = NoCaller

DummyNext ==
    \/ DummyEnter
    \/ CallbackRuns
    \/ LocalizerEnter
    \/ Localize
    \/ Prepare
    \/ LocalizeJob
    \/ DummyWaitForClusterReady
    \/ Sbatch
    \/ Poll
    \/ LocalizerExit
    \/ ParseOutputs
    \/ FinalSacct
    \/ DummyExit
    \/ DummyExitAgain

DummySpec == DummyInit /\ [][DummyNext]_vars

\* str.split(':') of an argument given as tokens, each colon a token of its
\* own: the fields between the colons.
RECURSIVE Split(_)
Split(t) ==
    IF Len(t) = 0 THEN << << >> >>
    ELSE IF Head(t) = ":" THEN << << >> >> \o Split(Tail(t))
    ELSE LET rest == Split(Tail(t))
         IN  << << Head(t) >> \o Head(rest) >> \o Tail(rest)

\* parse_arg of ConfType(nfields, nMax): the fields, or the error raised.
\* With more than nMax fields `args[:nMax-1] + ':'.join(...)` adds a str to a
\* list, a TypeError.
ParseArg(argument, nfields, nMax) ==
    LET args == Split(argument)
    IN  IF Len(args) < nfields THEN [ error |-> "ArgumentError", fields |-> << >> ]
        ELSE IF Len(args) > nMax THEN [ error |-> "TypeError", fields |-> << >> ]
        ELSE [ error |-> "none", fields |-> args ]

\* A value of the inputs mapping: a string (its tokens), or a list of strings.
Scalar(v) == [ list |-> FALSE, items |-> << v >> ]
List(vs) == [ list |-> TRUE, items |-> vs ]

\* The loop over args.input that builds `inputs`: a name given once maps to
\* its value, a name given again to the list of its values.
RECURSIVE CollectInputs(_, _, _)
CollectInputs(pairs, k, inputs) ==
    IF k > Len(pairs) THEN inputs
    ELSE LET name == pairs[k][1]
             val == pairs[k][2]
             new == IF name \in DOMAIN inputs
                    THEN List(inputs[name].items \o << val >>)
                    ELSE Scalar(val)
         IN  CollectInputs(pairs, k + 1,
                           [ n \in DOMAIN inputs \cup { name } |->
                               IF n = name THEN new ELSE inputs[n] ])

\* A variant of MergeInputs that adds the command line's values to the value
\* the pipeline file gives.
MergeInputsAppending(yaml, pairs) ==
    LET inputs == CollectInputs(pairs, 1, << >>)
    IN  [ n \in DOMAIN yaml \cup DOMAIN inputs |->
            IF n \notin DOMAIN inputs THEN yaml[n]
            ELSE IF n \notin DOMAIN yaml THEN inputs[n]
            ELSE List(yaml[n].items \o inputs[n].items) ]

\* conf['inputs'] = {**conf['inputs'], **inputs}
MergeInputs(yaml, pairs) ==
    LET inputs == CollectInputs(pairs, 1, << >>)
    IN  [ n \in DOMAIN yaml \cup DOMAIN inputs |->
            IF n \in DOMAIN inputs THEN inputs[n] ELSE yaml[n] ]

\* parser.parse_args(): every --input goes through ConfType(2); argparse
\* ends the program when one of them is refused.
MainParse ==
    /\ pc = "main"
    /\ LET results == [ k \in 1..Len(cli.input) |-> ParseArg(cli.input[k], 2, 2) ]
           bad == { k \in 1..Len(results) : results[k].error # "none" }
       IN  IF bad = {}
           THEN /\ cli' = [ cli EXCEPT !.parsed = [ k \in 1..Len(results) |->
                                                     results[k].fields ] ]
                /\ pc' = "merge" /\ exc' = exc
           ELSE /\ cli' = cli
                /\ Raise("SystemExit", "raised")
    /\ UNCHANGED << config, fs, locInputs, commonInputs, jobIdx, batchId,
                    waiting, outputs, received, hist, backend, requester_pays,
                    task, caller >>

\* The conf main builds from the pipeline file and the options: its inputs.
MainMerge ==
    /\ pc = "merge"
    /\ cli' = [ cli EXCEPT !.conf =
                  IF Len(cli.parsed) > 0 THEN MergeInputs(cli.yaml, cli.parsed)
                  ELSE cli.yaml ]
    /\ pc' = "new"
    /\ UNCHANGED << config, exc, fs, locInputs, commonInputs, jobIdx, batchId,
                    waiting, outputs, received, hist, backend, requester_pays,
                    task, caller >>

\* The positional parameters of run_pipeline besides self, and the
\* positional arguments main calls it with (args.dry_run).
RunPipelineParams == << >>
MainCallArgs == << "dry_run" >>

\* Orchestrator(conf).run_pipeline(args.dry_run): a call with more positional
\* arguments than the method takes raises TypeError before its body runs.
MainRun ==
    /\ pc = "start"
    /\ cli.used
    /\ IF Len(MainCallArgs) > Len(RunPipelineParams)
       THEN Raise("TypeError", "raised")
       ELSE pc' = "run" /\ exc' = exc
    /\ UNCHANGED << config, fs, locInputs, commonInputs, jobIdx, batchId,
                    waiting, outputs, received, hist >>
    /\ UNCHANGED others

\* The command lines: --dry-run or not, a pipeline file with or without a
\* value for input x or y, --script or the file's list of lines, and up to
\* MaxArgs --input options.
InputArgs ==
    { << "x", ":", "b" >>, << "x", ":", "c" >>, << "y", ":", "b" >>,
      << "x" >>, << "x", ":", "gs", ":", "//b/o" >> }
YamlInputs ==
    { << >>, (<< "x" >> :> Scalar(<< "a" >>)), (<< "x" >> :> List(<< << "a" >> >>)),
      (<< "y" >> :> Scalar(<< "a" >>)) }
ArgLists == UNION { [ 1..n -> InputArgs ] : n \in 0..MaxArgs }

CliConfigs ==
    { [ jobSpec |-> << "0" >>,
        inputs |-> ("0" :> << >>),
        overrides |-> << >>,
        common |-> TRUE,
        localize_gs |-> TRUE,
        mount_path |-> StagingDir,
        patterns |-> ("log" :> << C("stdout") >>),
        script |-> sc,
        faults |-> FALSE ] : sc \in { ListScript, StrScript(S1) } }

CliInit ==
    \E cfg \in CliConfigs : \E d \in BOOLEAN : \E y \in YamlInputs : \E a \in ArgLists :
       /\ Begin(cfg, "main")
       /\ backend = NoBackend
       /\ caller = NoCaller
       /\ cli = [ used |-> TRUE, dry_run |-> d, yaml |-> y, input |-> a,
                  parsed |-> << >>, conf |-> << >> ]

CliNext == MainParse \/ MainMerge \/ Construct \/ MainRun

CliSpec == CliInit /\ [][CliNext]_vars

\* The config dict a caller hands to Orchestrator(config): a mapping from
\* keys to values, with or without a backend, a script and localization
\* options, the options with or without overrides.
MaxOrchestrators == 2
LocalizerOptions ==
    { << >>, ("staging_dir" :> "stg"),
      ("staging_dir" :> "stg") @@ ("mount_path" :> "mnt") }
OverrideDicts ==
    { << >>, ("a" :> "stream"), ("a" :> "Common") @@ ("b" :> "delayed") }
LocalizationDicts ==
    LocalizerOptions
    \cup { opts @@ ("overrides" :> ov) : opts \in LocalizerOptions, ov \in OverrideDicts }
CallerConfigs ==
    { sc @@ be @@ lo :
        sc \in { << >>, ("script" :> ListScript) },
        be \in { << >>, ("backend" :> ("type" :> "Local")),
                 ("backend" :> ("type" :> "Nope")) },
        lo \in { << >> } \cup { ("localization" :> d) : d \in LocalizationDicts } }

\* Orchestrator.fill_config(cfg) for a dict: the defaults are written into
\* the dict it was given.
DEFAULTS ==
    ("name" :> "canine") @@ ("adapter" :> ("type" :> "Manual"))
    @@ ("backend" :> ("type" :> "Local"))
FillConfig(cfg) ==
    [ key \in DOMAIN cfg \cup DOMAIN DEFAULTS |->
        IF key \notin DOMAIN cfg THEN DEFAULTS[key]
        ELSE IF key \in { "adapter", "backend" } THEN cfg[key] @@ DEFAULTS[key]
        ELSE cfg[key] ]

\* The exception Orchestrator.__init__ raises for a filled config, "none"
\* when it raises none.
InitCheck(cfg) ==
    LET script == IF "script" \in DOMAIN cfg THEN cfg["script"]
                  ELSE [ type |-> "missing" ]
    IN  IF ScriptCheck(script) # "none" THEN ScriptCheck(script)
        ELSE IF cfg["adapter"]["type"] \notin { "Manual" } THEN "ValueError"
        ELSE IF cfg["backend"]["type"] \notin { "Local", "Remote", "TransientGCP" }
             THEN "ValueError"
        ELSE "none"

\* del d[key]
Del(d, key) == [ k \in DOMAIN d \ { key } |-> d[k] ]

\* self.localizer_args of Orchestrator o: config['localization'] itself, the
\* dict of the caller, or a dict of its own when the config has none.
LocalizerArgsOf(o, cfg) == IF o.shared THEN cfg["localization"] ELSE << >>

\* Orchestrator(config) on the caller's dict: fill_config, the checks, and
\* the overrides taken out of the localization options.
NewOrchestrator ==
    /\ caller.used
    /\ Len(caller.made) + caller.failed < MaxOrchestrators
    /\ LET cfg == FillConfig(caller.config)
           has == "localization" \in DOMAIN cfg
           args == IF has THEN cfg["localization"] ELSE << >>
           takes == "overrides" \in DOMAIN args
       IN  IF InitCheck(cfg) # "none"
           THEN caller' = [ caller EXCEPT !.config = cfg, !.failed = @ + 1 ]
           ELSE caller' =
                  [ caller EXCEPT
                      !.config = IF takes
                                 THEN [ cfg EXCEPT !["localization"] = Del(@, "overrides") ]
                                 ELSE cfg,
                      !.made = Append(@,
                                 [ shared |-> has,
                                   localizer_overrides |->
                                      IF takes THEN args["overrides"] ELSE << >>,
                                   ran |-> FALSE,
                                   localizer_kwargs |-> << >>,
                                   overrides |-> << >> ]) ]
    /\ UNCHANGED << config, pc, exc, fs, locInputs, commonInputs, jobIdx, batchId,
                    waiting, outputs, received, hist, backend, requester_pays,
                    cli, task >>

\* run_pipeline of the k-th Orchestrator up to localize: what it hands to
\* the Localizer constructor and to localize.
OpenLocalizer ==
    /\ caller.used
    /\ \E k \in 1..Len(caller.made) :
         /\ ~caller.made[k].ran
         /\ caller' =
              [ caller EXCEPT !.made[k] =
                  [ shared |-> @.shared,
                    localizer_overrides |-> @.localizer_overrides,
                    ran |-> TRUE,
                    localizer_kwargs |-> LocalizerArgsOf(@, caller.config),
                    overrides |-> @.localizer_overrides ] ]
    /\ UNCHANGED << config, pc, exc, fs, locInputs, commonInputs, jobIdx, batchId,
                    waiting, outputs, received, hist, backend, requester_pays,
                    cli, task >>

OrchInit ==
    \E c \in CallerConfigs :
       /\ Begin(CHOOSE cfg \in DelocConfigs : TRUE, "construct")
       /\ backend = NoBackend
       /\ cli = NoCli
       /\ caller = [ used |-> TRUE, given |-> c, config |-> c,
                     made |-> << >>, failed |-> 0 ]

OrchSpec == OrchInit /\ [][NewOrchestrator \/ OpenLocalizer]_vars

\* Construction and the steps up to the pipeline script, for every kind of
\* script.
CtorConfigs ==
    { [ jobSpec |-> js,
        inputs |-> [ t \in { js[k] : k \in 1..Len(js) } |-> ("a" :> v) ],
        overrides |-> << >>,
        common |-> TRUE,
        localize_gs |-> TRUE,
        mount_path |-> m,
        patterns |-> ("log" :> << C("stdout") >>),
        script |-> sc,
        faults |-> FALSE ] :
      js \in PlanJobSpecs, v \in { F1, G1, L1 }, m \in MountPaths, sc \in Scripts }

CtorInit ==
    \E cfg \in CtorConfigs :
       Begin(cfg, "new") /\ backend = NoBackend /\ cli = NoCli /\ caller = NoCaller

CtorNext == Construct \/ BackendEnter \/ LocalizerEnter \/ Localize \/ Prepare

CtorSpec == CtorInit /\ [][CtorNext]_vars

ProbeInit == \E cfg \in DelocConfigs : PlanStart(cfg)

ProbeSpec == ProbeInit /\ [][GetRequesterPays]_vars

----------------------------------------------------------------------------
(* Properties of run_pipeline                                               *)

\* The tasks of the job spec.
Tasks == { config.jobSpec[k] : k \in 1..Len(config.jobSpec) }

\* C1: localize has returned before the first localize_job call; when sbatch
\* is called (and ever after) localize_job has been called and has returned
\* for every task of the job spec and wait_for_cluster_ready has returned.
C1_LocalizeThenJobsThenSbatch ==
    /\ hist.jobCalls # {} => hist.localizeReturned
    /\ (pc = "submit" \/ hist.sbatchCalls > 0) =>
          /\ hist.localizeReturned
          /\ hist.jobCalls = Tasks
          /\ jobIdx = Len(config.jobSpec)
          /\ hist.ready

C1_Witness ==
    /\ hist.sbatchCalls = 1
    /\ Len(config.jobSpec) >= 2
    /\ hist.jobCalls = Tasks

\* The array element ids '<batch_id>_<i>' of the submitted job.
Elements == { << batchId, "_", Str(i) >> : i \in 0..(Len(config.jobSpec) - 1) }
Indices == { Str(i) : i \in 0..(Len(config.jobSpec) - 1) }
Submitted == batchId # "none"

\* C2 (as stated): delocalize(jobId=i) is invoked only when sacct reports
\* element i in a terminal SLURM state, whatever other state sacct can report.
C2_DelocalizeOnlyTerminal ==
    \A job \in DOMAIN hist.delocState : hist.delocState[job] \in TerminalStates

\* C3: an element observed in a terminal state other than COMPLETED is still
\* delocalized, with that state; polling goes on while elements are waited
\* for; and the run ends with an exception only if an operation raised.
C3_FailedTaskStillDelocalized ==
    /\ exc = NoExc =>
         \A job \in DOMAIN hist.seen :
            hist.seen[job] \in TerminalStates \ { "COMPLETED" } =>
               /\ job \in DOMAIN hist.delocCount
               /\ hist.delocCount[job] = 1
               /\ hist.delocState[job] = hist.seen[job]
               /\ job \in DOMAIN outputs
    /\ (exc = NoExc /\ Submitted /\ waiting # {}) => pc = "poll"
    /\ pc = "raised" => exc.op # "none"
    /\ (pc \in { "returned", "raised" } /\ exc = NoExc) =>
          /\ pc = "returned"
          /\ hist.retval = [ batch_id |-> batchId, job_spec |-> config.jobSpec,
                             acct |-> "final_sacct" ]

C3_Witness ==
    /\ pc = "returned"
    /\ \E job \in DOMAIN hist.seen : hist.seen[job] = "FAILED"
    /\ \E job \in DOMAIN hist.seen : hist.seen[job] = "COMPLETED"
    /\ DOMAIN hist.delocCount = Indices

\* C4: the waiting set starts as the N ids <batch_id>_0 .. <batch_id>_(N-1);
\* each element is delocalized at most once; an element is waited for exactly
\* as long as its delocalize has not returned; and when run_pipeline returns
\* every element has been delocalized exactly once.
C4_WaitingSetAndDelocalizeOnce ==
    /\ Submitted =>
          /\ hist.waitingStart = Elements
          /\ Cardinality(hist.waitingStart) = Len(config.jobSpec)
          /\ \A jid \in Elements : jid \in waiting <=> SplitJob(jid) \notin DOMAIN outputs
          /\ waiting \subseteq Elements
    /\ ~Submitted => waiting = {} /\ DOMAIN hist.delocCount = {}
    /\ \A job \in DOMAIN hist.delocCount : hist.delocCount[job] <= 1
    /\ DOMAIN hist.delocCount \subseteq Indices
    /\ pc = "returned" =>
          /\ DOMAIN hist.delocCount = Indices
          /\ \A job \in Indices : hist.delocCount[job] = 1

C4_Witness ==
    /\ pc = "returned"
    /\ Len(config.jobSpec) = 2
    /\ config.jobSpec # SubSeq(TaskOrder, 1, 2)
    /\ \A job \in Indices : hist.delocCount[job] = 1

\* The poll loop was left by its condition, not by an exception.
LoopEnded ==
    /\ Submitted
    /\ pc # "poll"
    /\ exc = NoExc \/ exc.site \in { "parse", "final_sacct" }

Returned ==
    /\ pc = "returned"
    /\ hist.parseCalls = 1
    /\ hist.parsed = outputs
    /\ DOMAIN hist.parsed = Indices
    /\ hist.retval = [ batch_id |-> batchId, job_spec |-> config.jobSpec,
                       acct |-> "final_sacct" ]

\* C5: if every array element is eventually reported by sacct in a state other
\* than RUNNING and PENDING and no operation raises, run_pipeline eventually
\* hands the output map to parse_outputs and returns (batch_id, job_spec,
\* final sacct table); and the loop is not left while an element has only been
\* reported RUNNING, PENDING or not at all.
C5_PollLoopTerminates ==
    /\ [](LoopEnded => Indices \subseteq DOMAIN hist.seen)
    /\ [](pc = "returned" => Returned)
    /\ (<>(Submitted /\ Indices \subseteq DOMAIN hist.seen) /\ [](exc = NoExc))
          => <>Returned

C5_Witness ==
    /\ Returned
    /\ Len(config.jobSpec) = MaxTasks
    /\ Indices \subseteq DOMAIN hist.seen

\* C6: leaving the Localizer scope with no exception removes the whole
\* staging tree and nothing else; leaving it because of an exception leaves
\* the file system unchanged.
C6_ExitCleansOnlyWhenClean ==
    [][ (pc = "leave_localizer" /\ pc' # "leave_localizer") =>
           IF exc = NoExc
           THEN /\ Under(fs', StagingDir) = {}
                /\ \A q \in DOMAIN fs \ Under(fs, StagingDir) :
                      q \in DOMAIN fs' /\ fs'[q] = fs[q]
                /\ DOMAIN fs' \subseteq DOMAIN fs
           ELSE fs' = fs ]_vars

C6_Witness ==
    /\ hist.exits = << "Localizer.clean" >>
    /\ Len(config.jobSpec) >= 1
    /\ DOMAIN outputs = Indices
    /\ Under(fs, StagingDir) = {}
    /\ received # {}

\* The operations C7 names, and the exits of the two scopes in their order.
C7_Ops == { "localize", "localize_job", "sbatch", "sacct", "delocalize" }
UnwoundFaulted ==
    /\ hist.exits = << "Localizer.faulted", "Backend" >>
    /\ IsDir(fs, StagingDir)
    /\ hist.parseCalls = 0
    /\ hist.retval = NoRetval

\* C7 (as stated): when localize, localize_job, sbatch, sacct or delocalize
\* raised, the exception reaches the caller after the Localizer's faulted exit
\* and the backend's exit, with the staging tree preserved.
C7_AnyRaisePreservesStaging ==
    (pc = "raised" /\ exc.op \in C7_Ops) => UnwoundFaulted

\* C7 (amended): the same for localize, localize_job, sbatch, delocalize and
\* the sacct call of the poll loop; and after the failing step the exception
\* stays the same, the file system stays the same, and no sbatch, delocalize or
\* parse_outputs call happens.
C7_RaiseInsideLocalizerScope ==
    [][ /\ (pc' = "raised" /\ exc'.op \in C7_Ops /\ exc'.site # "final_sacct")
           => UnwoundFaulted'
        /\ (exc # NoExc /\ exc.op \in C7_Ops) =>
              /\ exc' = exc
              /\ fs' = fs
              /\ hist'.sbatchCalls = hist.sbatchCalls
              /\ hist'.delocCount = hist.delocCount
              /\ hist'.parseCalls = hist.parseCalls
              /\ pc' \in { "leave_backend", "raised" } ]_vars

C7_Witness ==
    /\ pc = "raised"
    /\ exc.op = "delocalize"
    /\ UnwoundFaulted
    /\ \E job \in DOMAIN hist.delocCount : job \notin DOMAIN outputs

----------------------------------------------------------------------------
(* Properties of Localizer.localize                                         *)

\* C8 (as stated): after localize returned, every input name of every task has
\* a record in Localizer.inputs whose type is none, stream or download,
\* whatever the override mode of the name.
C8_EveryInputHasRecord ==
    hist.localizeReturned =>
       \A t \in DOMAIN config.inputs : \A n \in DOMAIN config.inputs[t] :
          /\ t \in DOMAIN locInputs
          /\ n \in DOMAIN locInputs[t]
          /\ locInputs[t][n].type \in { "none", "stream", "download" }

\* C9: when sbatch is called, jobs/<t>/workspace is a directory under the
\* staging directory for every task id t of the job spec.
C9_WorkspaceExistsAtSbatch ==
    pc = "submit" =>
       \A t \in Tasks :
          IsDir(fs, Join(StagingDir, << C("jobs"), C(t), C("workspace") >>))

C9_Witness ==
    /\ pc = "submit"
    /\ Len(config.jobSpec) = 2
    /\ config.jobSpec # SubSeq(TaskOrder, 1, 2)
    /\ \A t \in Tasks :
          IsDir(fs, Join(StagingDir, << C("jobs"), C(t), C("workspace") >>))

\* The tasks that reference value v through an input no override moves
\* elsewhere, and whether an input of value v is overridden to common.
FreeTasks(v) ==
    LET ov == NormOverrides(config.overrides)
    IN  { t \in DOMAIN config.inputs :
            \E n \in DOMAIN config.inputs[t] :
               /\ config.inputs[t][n] = v
               /\ n \notin DOMAIN ov \/ ov[n] = "common" }
MarkedCommon(v) ==
    LET ov == NormOverrides(config.overrides)
    IN  \E t \in DOMAIN config.inputs : \E n \in DOMAIN config.inputs[t] :
           /\ config.inputs[t][n] = v
           /\ n \in DOMAIN ov /\ ov[n] = "common"

\* C10 (as stated): with common mode enabled a value is selected for the
\* common area exactly when at least two distinct tasks reference it through
\* inputs no override moves elsewhere, or an override marks its input common.
C10_CommonIffSharedOrMarked ==
    (hist.localizeReturned /\ config.common) =>
       \A v \in Values :
          v \in commonInputs <=> (Cardinality(FreeTasks(v)) >= 2 \/ MarkedCommon(v))

----------------------------------------------------------------------------
(* Properties of Localizer.localize_job                                     *)

\* Where setup.sh of task t is written, and the script written there.
SetupPath(t) == Join(StagingDir, << C("jobs"), C(t), << "setup", "sh" >> >>)
SetupOf(t) == fs[SetupPath(t)].src
HasSetup(t) == IsRegular(fs, SetupPath(t))

\* The value a task sees in variable n after sourcing the setup.sh of t.
Exported(t, n) ==
    LET e == SetupOf(t).exports
        k == CHOOSE i \in 1..Len(e) : e[i].name = n
    IN  ShellWord(e[k].word, 1, "plain")

\* C11: the setup.sh of a task has exactly one export line for each name in
\* CANINE_JOB_VARS, which lists exactly the inputs of the task whose record
\* is of type none, stream or download; the value exported for a stream or
\* download record is the compute-side path jobs/<t>/inputs/<basename>.
C11_ExportsMatchJobVars ==
    \A t \in Tasks :
       HasSetup(t) =>
          LET sh == SetupOf(t)
              inp == locInputs[t]
              listed == { sh.CANINE_JOB_VARS[k] : k \in 1..Len(sh.CANINE_JOB_VARS) }
          IN  /\ Len(sh.exports) = Len(sh.CANINE_JOB_VARS)
              /\ Cardinality(listed) = Len(sh.CANINE_JOB_VARS)
              /\ \A k \in 1..Len(sh.exports) :
                    sh.CANINE_JOB_VARS[k] = << sh.exports[k].name >>
              /\ listed = { << n >> : n \in { m \in DOMAIN inp :
                              inp[m].type \in { "none", "stream", "download" } } }
              /\ \A n \in DOMAIN inp :
                    inp[n].type \in { "stream", "download" } =>
                       Exported(t, n) =
                          Text(Join(config.mount_path,
                                    << C("jobs"), C(t), C("inputs"),
                                       Basename(inp[n].path) >>))

C11_Witness ==
    \E t \in Tasks :
       /\ HasSetup(t)
       /\ Len(SetupOf(t).exports) = 2
       /\ \E n \in DOMAIN locInputs[t] : locInputs[t][n].type = "stream"
       /\ \E n \in DOMAIN locInputs[t] : locInputs[t][n].type = "none"

\* C12 (as stated): for an input with no override whose value is neither a
\* local file nor a gs:// URI, the value the task sees in the exported
\* variable after sourcing setup.sh is the value, character for character.
C12_LiteralExportedVerbatim ==
    \A t \in Tasks :
       HasSetup(t) =>
          \A n \in DOMAIN config.inputs[t] :
             LET v == config.inputs[t][n]
             IN  (n \notin DOMAIN config.overrides /\ ~IsFile(v) /\ ~IsGs(v)) =>
                    Exported(t, n) = Text(v)

\* Path p is root or lies below it; and the same for a text.
Below(p, root) == Len(p) >= Len(root) /\ SubSeq(p, 1, Len(root)) = root
TextBelow(t, root) ==
    LET r == Text(root)
    IN  Len(t) >= Len(r) /\ SubSeq(t, 1, Len(r)) = r

\* The inputs of task t whose record carries a path the Localizer made: a
\* staged or common path, or the destination of a stream or download.
Generated(t) ==
    { n \in DOMAIN locInputs[t] :
        \/ locInputs[t][n].type \in { "stream", "download" }
        \/ locInputs[t][n].path # config.inputs[t][n] }

\* C13: every path canine generates and hands to a worker lies under
\* mount_path: the four paths of entrypoint.sh and its pipeline script, the
\* four job paths of a setup.sh, every staged, common, stream or download
\* input path exported there, the destinations of the fetch commands, and
\* the script, output and error paths given to sbatch.
C13_WorkerPathsUnderMountPath ==
    LET m == config.mount_path
        ep == EntrypointPath(config)
    IN  /\ IsRegular(fs, ep) =>
              /\ Below(fs[ep].src.CANINE_ROOT, m)
              /\ Below(fs[ep].src.CANINE_COMMON, m)
              /\ Below(fs[ep].src.CANINE_OUTPUT, m)
              /\ Below(fs[ep].src.CANINE_JOBS, m)
              /\ Below(fs[ep].src.pipeline_script, m)
        /\ \A t \in Tasks :
              HasSetup(t) =>
                 /\ Below(SetupOf(t).CANINE_JOB_INPUTS, m)
                 /\ Below(SetupOf(t).CANINE_JOB_ROOT, m)
                 /\ Below(SetupOf(t).CANINE_JOB_SETUP, m)
                 /\ Below(SetupOf(t).CANINE_JOB_TEARDOWN, m)
                 /\ \A n \in Generated(t) : TextBelow(Exported(t, n), m)
                 /\ \A k \in 1..Len(SetupOf(t).extra_tasks) :
                       SetupOf(t).extra_tasks[k].cmd # "cd $CANINE_JOB_INPUTS" =>
                          TextBelow(SetupOf(t).extra_tasks[k].dest, m)
        /\ pc = "submit" =>
              /\ Below(SbatchArgs(config).script, m)
              /\ Below(SbatchArgs(config).output, m)
              /\ Below(SbatchArgs(config).error, m)

C13_Witness ==
    /\ pc = "submit"
    /\ config.mount_path # StagingDir
    /\ IsRegular(fs, EntrypointPath(config))
    /\ \E t \in Tasks : \E n \in Generated(t) :
          /\ locInputs[t][n].type = "none"
          /\ Below(locInputs[t][n].path, Environment(config).CANINE_COMMON)
    /\ \E t \in Tasks : \E n \in Generated(t) :
          /\ locInputs[t][n].type = "none"
          /\ Below(locInputs[t][n].path, Environment(config).CANINE_JOBS)
    /\ \E t \in Tasks : \E n \in Generated(t) : locInputs[t][n].type = "download"

\* C14 (as stated): every file the controller side writes through the
\* transport or the backend, and the script it submits, lies under
\* staging_dir, also when mount_path differs from staging_dir.
C14_ControllerPathsUnderStagingDir ==
    /\ \A q \in DOMAIN fs : fs[q].kind = "file" => Below(q, StagingDir)
    /\ pc = "submit" => Below(SbatchArgs(config).script, StagingDir)

----------------------------------------------------------------------------
(* Properties of the staged and common files                                *)

\* The (task, input) pairs localize copied into the task's inputs/.
Staged ==
    { tn \in (DOMAIN locInputs) \X InputNames :
        /\ tn[2] \in DOMAIN locInputs[tn[1]]
        /\ locInputs[tn[1]][tn[2]].type = "none"
        /\ locInputs[tn[1]][tn[2]].path # config.inputs[tn[1]][tn[2]]
        /\ Below(locInputs[tn[1]][tn[2]].path, Environment(config).CANINE_JOBS) }

\* C15 (as stated): two eagerly localized inputs that come from different
\* source files are recorded with different destination paths, also when
\* the sources share a basename and belong to the same task.
C15_StagedPathsDiffer ==
    hist.localizeReturned =>
       \A x \in Staged : \A y \in Staged :
          (x # y /\ config.inputs[x[1]][x[2]] # config.inputs[y[1]][y[2]]) =>
             locInputs[x[1]][x[2]].path # locInputs[y[1]][y[2]].path

\* C16 (as stated): two distinct common inputs whose basenames are equal are
\* materialised under common/ at two different paths, each with its own
\* content: neither overwrites the other.
C16_CommonBasenamesKeptApart ==
    hist.localizeReturned =>
       LET handled == CommonHandled(config, commonInputs)
           common == Under(fs, Join(StagingDir, << C("common") >>))
       IN  \A v1 \in handled : \A v2 \in handled :
              (v1 # v2 /\ Basename(v1) = Basename(v2)) =>
                 \E q1 \in common : \E q2 \in common :
                    /\ q1 # q2
                    /\ fs[q1] = File(v1)
                    /\ fs[q2] = File(v2)

\* The (task, input) pairs whose value is v, and the inputs of task t that
\* are local files with the basename of v.
Uses(v) ==
    { tn \in (DOMAIN config.inputs) \X InputNames :
        tn[2] \in DOMAIN config.inputs[tn[1]] /\ config.inputs[tn[1]][tn[2]] = v }
Namesakes(t, v) ==
    { n \in DOMAIN config.inputs[t] :
        IsFile(config.inputs[t][n]) /\ Basename(config.inputs[t][n]) = Basename(v) }

\* Two tasks supply different local files of one basename, with no
\* overrides: x is the (task, input) of the task that comes first in the job
\* spec, y that of the second; each file is used by that input only.
SameNameAcrossTasks(x, y) ==
    LET vx == config.inputs[x[1]][x[2]]
        vy == config.inputs[y[1]][y[2]]
    IN  /\ hist.localizeReturned
        /\ config.overrides = << >>
        /\ \E i \in 1..Len(config.jobSpec) : \E j \in 1..Len(config.jobSpec) :
              i < j /\ config.jobSpec[i] = x[1] /\ config.jobSpec[j] = y[1]
        /\ IsFile(vx) /\ IsFile(vy) /\ vx # vy /\ Basename(vx) = Basename(vy)
        /\ Uses(vx) = { x } /\ Uses(vy) = { y }
        /\ Namesakes(x[1], vx) = { x[2] } /\ Namesakes(y[1], vy) = { y[2] }

Pairs == (DOMAIN config.inputs) \X InputNames
Entries == { tn \in Pairs : tn[2] \in DOMAIN config.inputs[tn[1]] }

\* C17 (as stated): in that case neither file is placed in common/ and the
\* second task's staged path ends in _alt.txt.
C17_SecondTaskRenamed ==
    \A x \in Entries : \A y \in Entries :
       SameNameAcrossTasks(x, y) =>
          LET b == Basename(locInputs[y[1]][y[2]].path)
          IN  /\ config.inputs[x[1]][x[2]] \notin commonInputs
              /\ config.inputs[y[1]][y[2]] \notin commonInputs
              /\ Len(b) >= 2 /\ b[Len(b) - 1] = "_alt" /\ b[Len(b)] = "txt"

\* C17 (amended): in that case neither file is placed in common/ and each
\* file is copied under its own name into the inputs directory of its task,
\* where nothing has that name yet: both staged paths end in x.txt, the
\* second task's is not renamed.
C17_EachTaskKeepsTheName ==
    \A x \in Entries : \A y \in Entries :
       SameNameAcrossTasks(x, y) =>
          /\ config.inputs[x[1]][x[2]] \notin commonInputs
          /\ config.inputs[y[1]][y[2]] \notin commonInputs
          /\ \A p \in Under(fs, Join(StagingDir, << C("common") >>)) :
                fs[p].src \notin { config.inputs[x[1]][x[2]], config.inputs[y[1]][y[2]] }
          /\ \A z \in { x, y } :
                LET v == config.inputs[z[1]][z[2]]
                    tail == << C("jobs"), C(z[1]), C("inputs"), Basename(v) >>
                IN  /\ locInputs[z[1]][z[2]] =
                          Localization("none", Join(config.mount_path, tail))
                    /\ IsRegular(fs, Join(StagingDir, tail))
                    /\ fs[Join(StagingDir, tail)] = File(v)

C17_Witness ==
    \E x \in Entries : \E y \in Entries :
       /\ SameNameAcrossTasks(x, y)
       /\ config.common
       /\ locInputs[y[1]][y[2]].path
             = Join(config.mount_path, << C("jobs"), C(y[1]), C("inputs"), << "x", "txt" >> >>)

\* The inputs overridden to mode m, and the files localize has copied: those
\* under common/ and under the inputs/ directory of a task.
Overridden(m) ==
    { x \in Entries : x[2] \in DOMAIN config.overrides
                      /\ NormOverrides(config.overrides)[x[2]] = m }
StagedFiles ==
    { p \in Under(fs, Join(StagingDir, << C("common") >>))
            \cup UNION { Under(fs, Join(StagingDir, << C("jobs"), C(t), C("inputs") >>)) :
                         t \in DOMAIN config.inputs } :
        IsRegular(fs, p) }
Copied(v) == \E p \in StagedFiles : fs[p].src = v

\* The compute-side path of input value v in the inputs/ directory of task t.
InputsPath(t, v) ==
    Join(config.mount_path, << C("jobs"), C(t), C("inputs"), Basename(v) >>)

OnController(p) ==
    StagingDir \o SubSeq(p, Len(config.mount_path) + 1, Len(p))

\* C19: for an input overridden to delayed, a gs:// value is recorded as
\* (download, value) and nothing is copied for it; a local file is recorded
\* as (none, p) with p in the inputs/ directory of the task, and once
\* localize has returned, hence before sbatch, the file is at that path.
C19_DelayedDownloadsOrCopies ==
    hist.localizeReturned =>
       \A x \in Overridden("delayed") :
          LET t == x[1]
              v == config.inputs[x[1]][x[2]]
              rec == locInputs[t][x[2]]
          IN  /\ IsGs(v) =>
                   /\ rec = Localization("download", v)
                   /\ Uses(v) \subseteq Overridden("delayed") =>
                         v \notin commonInputs /\ ~Copied(v)
              /\ IsFile(v) =>
                   /\ rec.type = "none"
                   /\ Dirname(rec.path)
                         = Join(config.mount_path, << C("jobs"), C(t), C("inputs") >>)
                   /\ IsRegular(fs, OnController(rec.path))
                   /\ fs[OnController(rec.path)] = File(v)

----------------------------------------------------------------------------
(* Properties of Localizer.delocalize                                       *)

\* The workspace of task t, and its files that match the pattern of output
\* name n, by absolute path or by path relative to the workspace.
Workspace(t) == Join(Env(config).CANINE_JOBS, << C(t), C("workspace") >>)
Matching(t, n) ==
    { q \in Under(fs, Workspace(t)) :
        IsRegular(fs, q) /\ Matches(q, Workspace(t), config.patterns[n]) }

\* C20: a delocalize call for task t delivers every workspace file that
\* matches the pattern of an output name n to <output_dir>/<t>/<n>/<basename>
\* on the invoking host, reports it in the result for (t, n) and removes it
\* from the worker tree, however many files match the pattern.
C20_DelocalizeDeliversEveryMatch ==
    [][ (pc = "poll" /\ pc' # "poll") =>
          \A t \in Tasks : \A n \in DOMAIN config.patterns :
             \A q \in Matching(t, n) :
                /\ OutputPath(t, n, q) \in received'
                /\ t \in DOMAIN outputs' /\ n \in DOMAIN outputs'[t]
                /\ OutputPath(t, n, q) \in { outputs'[t][n] }
                /\ ~Exists(fs', q) ]_vars

\* C36: when every output name matches at most one file of the workspace, a
\* delocalize call for task t does not raise, and a file that matches the
\* patterns of two output names is delivered under both names.
C36_FileUnderBothNames ==
    [][ (pc = "poll" /\ pc' # "poll"
         /\ \A t \in Tasks : \A n \in DOMAIN config.patterns :
               Cardinality(Matching(t, n)) <= 1) =>
          /\ pc' = "delocalized"
          /\ \A t \in Tasks : \A n \in DOMAIN config.patterns :
                \A q \in Matching(t, n) : OutputPath(t, n, q) \in received' ]_vars

----------------------------------------------------------------------------
(* Properties of the submission                                             *)

\* C28: sbatch is called at most once, and exactly once in a run that
\* reaches submission; from then on the batch id and the number of sbatch
\* calls never change and no element is added to the waiting set, whatever
\* states the tasks end in.
C28_SbatchCalledOnce ==
    /\ [](hist.sbatchCalls <= 1)
    /\ [](Submitted => hist.sbatchCalls = 1 /\ hist.waitingStart = Elements)
    /\ [][ Submitted => /\ batchId' = batchId
                        /\ hist'.sbatchCalls = hist.sbatchCalls
                        /\ waiting' \subseteq waiting ]_vars

C28_Witness ==
    /\ pc = "returned"
    /\ hist.sbatchCalls = 1
    /\ Len(config.jobSpec) = MaxTasks
    /\ \E job \in DOMAIN hist.seen : hist.seen[job] = "FAILED"
    /\ \E job \in DOMAIN hist.seen : hist.seen[job] = "TIMEOUT"

\* Where teardown.sh of task t would be.
TeardownPath(t) == Join(StagingDir, << C("jobs"), C(t), << "teardown", "sh" >> >>)

\* C30: when sbatch is about to be called, jobs/t/setup.sh and
\* jobs/t/teardown.sh are files of the staging area for every task t, so
\* CANINE_JOB_SETUP and CANINE_JOB_TEARDOWN both name existing files.
C30_SetupAndTeardownExist ==
    pc = "submit" =>
       \A t \in Tasks :
          /\ IsRegular(fs, SetupPath(t))
          /\ IsRegular(fs, TeardownPath(t))
          /\ SetupOf(t).CANINE_JOB_SETUP
                = Join(config.mount_path, << C("jobs"), C(t), << "setup", "sh" >> >>)
          /\ SetupOf(t).CANINE_JOB_TEARDOWN
                = Join(config.mount_path, << C("jobs"), C(t), << "teardown", "sh" >> >>)

----------------------------------------------------------------------------
(* Properties of Localizer.get_requester_pays                               *)

\* C27: over any sequence of get_requester_pays calls no two probes are for
\* the same bucket, every probe is `gsutil ls gs://<bucket>`, and a call
\* returns the boolean memoized for the bucket of its path.
C27_OneProbePerBucket ==
    /\ \A i \in 1..Len(hist.probes) : \A j \in 1..Len(hist.probes) :
          i # j => Bucket(hist.probes[i].url) # Bucket(hist.probes[j].url)
    /\ \A i \in 1..Len(hist.probes) :
          hist.probes[i].url = << C("gs:"), Bucket(hist.probes[i].url) >>
    /\ hist.pays # << >> =>
          hist.pays.result = requester_pays[Bucket(hist.pays.path)]

----------------------------------------------------------------------------
(* Properties of Orchestrator.__init__ and of main                          *)

\* C21: a script that is a string naming an existing file is accepted by the
\* constructor and sent to root_dir/<basename>, which becomes the pipeline
\* script; a list of lines is written to root_dir/script.sh; the constructor
\* rejects only a missing key, a missing file and a value of another type.
C21_ScriptAccepted ==
    LET script == config.script
        root_dir == config.mount_path
    IN  /\ (pc # "new" /\ script.type = "str" /\ IsFile(script.path)) => exc = NoExc
        /\ (pc # "new" /\ script.type = "list") => exc = NoExc
        /\ (pc # "new" /\ exc # NoExc) =>
              \/ script.type = "missing"
              \/ script.type = "str" /\ ~IsFile(script.path)
              \/ script.type \notin { "str", "list" }
        /\ (pc = "jobs" /\ script.type = "str") =>
              /\ fs[Join(root_dir, << Basename(script.path) >>)] = File(script.path)
              /\ fs[EntrypointPath(config)].src.pipeline_script
                    = Join(root_dir, << Basename(script.path) >>)
        /\ (pc = "jobs" /\ script.type = "list") =>
              /\ fs[Join(root_dir, << << "script", "sh" >> >>)] = File(script.lines)
              /\ fs[EntrypointPath(config)].src.pipeline_script
                    = Join(root_dir, << << "script", "sh" >> >>)

\* C22: a command line with --dry-run whose options parse and whose
\* Orchestrator is built ends after localization, with entrypoint.sh and
\* every task's setup.sh written, and with no sbatch call, poll or
\* delocalization.
C22_DryRunStopsBeforeSbatch ==
    (cli.used /\ cli.dry_run /\ pc \in { "raised", "returned" }
       /\ exc.site \notin { "main", "new" }) =>
       /\ hist.localizeReturned
       /\ IsRegular(fs, EntrypointPath(config))
       /\ \A t \in Tasks : IsRegular(fs, SetupPath(t))
       /\ hist.sbatchCalls = 0
       /\ DOMAIN hist.delocCount = {} /\ DOMAIN hist.seen = {}

\* The conf of a command line is built.
Merged == cli.used /\ pc \notin { "main", "merge" } /\ exc.site # "main"

\* C29 (as stated): a pipeline file with inputs.x = a and `--input x:b` give
\* inputs.x = [a, b]; `--input x:b --input x:c` with no value in the file
\* give inputs.x = [b, c].
C29_InputsAppended ==
    Merged =>
       /\ (<< "x" >> \in DOMAIN cli.yaml /\ ~cli.yaml[<< "x" >>].list
             /\ Len(cli.parsed) = 1 /\ cli.parsed[1][1] = << "x" >>) =>
             cli.conf[<< "x" >>] = List(cli.yaml[<< "x" >>].items \o << cli.parsed[1][2] >>)
       /\ (<< "x" >> \notin DOMAIN cli.yaml
             /\ Len(cli.parsed) = 2
             /\ cli.parsed[1][1] = << "x" >> /\ cli.parsed[2][1] = << "x" >>) =>
             cli.conf[<< "x" >>] = List(<< cli.parsed[1][2], cli.parsed[2][2] >>)

\* C29 (amended): a pipeline file with inputs.x = a and `--input x:b` give
\* inputs.x = b, the value of the command line in place of the file's;
\* `--input x:b --input x:c` with no value in the file give inputs.x = [b, c].
C29_InputsReplaced ==
    Merged =>
       /\ (<< "x" >> \in DOMAIN cli.yaml /\ ~cli.yaml[<< "x" >>].list
             /\ Len(cli.parsed) = 1 /\ cli.parsed[1][1] = << "x" >>) =>
             cli.conf[<< "x" >>] = Scalar(cli.parsed[1][2])
       /\ (<< "x" >> \notin DOMAIN cli.yaml
             /\ Len(cli.parsed) = 2
             /\ cli.parsed[1][1] = << "x" >> /\ cli.parsed[2][1] = << "x" >>) =>
             cli.conf[<< "x" >>] = List(<< cli.parsed[1][2], cli.parsed[2][2] >>)

C29_Witness ==
    /\ Merged
    /\ cli.yaml = (<< "x" >> :> Scalar(<< "a" >>))
    /\ cli.input = << << "x", ":", "b" >> >>
    /\ cli.conf = (<< "x" >> :> Scalar(<< "b" >>))

----------------------------------------------------------------------------
(* Properties of DummySlurmBackend                                         *)

\* The backend without the record of its __exit__ calls.
Resources(b) == [ b EXCEPT !.exits = << >> ]

\* C23: after enter, a run that ended without exception and an exit that
\* completed, a second call of __exit__ completes without error and leaves
\* the backend as the first exit left it.
C23_SecondExitIsNoOp ==
    [][(backend.type = "Dummy" /\ backend.entered /\ backend.ready
          /\ pc = "returned" /\ backend.exits = << "none" >>
          /\ Len(backend'.exits) = 2) =>
          /\ backend'.exits[2] = "none"
          /\ Resources(backend') = Resources(backend)]_vars

\* C24: once run_pipeline ended on a backend whose controller container was
\* launched and whose wait for the sentinel ended (entry failed on the worker
\* count, or __exit__ ran, with or without a stop that failed), no controller
\* or worker container of the backend is left running.
C24_ResourcesReleased ==
    (backend.type = "Dummy" /\ backend.controller = "ctl" /\ backend.waited
       /\ pc \in { "returned", "raised" }) =>
       backend.running = {}

\* C25: when the wait for the sentinel ended, entry fails with RuntimeError
\* if the sentinel was not seen or the number of workers found differs from
\* n_workers; entry succeeded only if the sentinel was seen and the number of
\* workers found is n_workers.
C25_EntryNeedsSentinelAndWorkers ==
    backend.type = "Dummy" =>
       /\ (backend.waited /\ (~backend.ready
                                \/ Len(backend.workers) # backend.n_workers)) =>
             ~backend.entered /\ exc = [ op |-> "RuntimeError", site |-> "start" ]
       /\ backend.entered =>
             backend.ready /\ Len(backend.workers) = backend.n_workers

\* The callbacks dispatched in container c.
CallbacksIn(c) ==
    { i \in 1..Len(backend.startup_callbacks) : backend.startup_callbacks[i] = c }

\* C26: once the backend is entered, one callback is dispatched in the
\* controller when controller_script is non-empty (holds more than blanks),
\* none otherwise, and one in each worker when compute_script is non-empty,
\* none otherwise; when wait_for_cluster_ready has returned, and when sbatch
\* has been called, every callback has ended.
C26_CallbacksDrainedBeforeSbatch ==
    (backend.type = "Dummy" /\ backend.entered) =>
       /\ Cardinality(CallbacksIn(Controller)) =
             (IF Strip(backend.controller_script) # << >> THEN 1 ELSE 0)
       /\ \A w \in 1..backend.n_workers :
             Cardinality(CallbacksIn(w)) =
                (IF Strip(backend.compute_script) # << >> THEN 1 ELSE 0)
       /\ (hist.ready \/ hist.sbatchCalls > 0) =>
             backend.done = 1..Len(backend.startup_callbacks)

\* sbatch is called after callbacks of the controller and of two workers
\* ran, one of them while the orchestrator was localizing.
C26_Witness ==
    /\ backend.type = "Dummy" /\ backend.entered
    /\ hist.sbatchCalls = 1
    /\ Len(backend.startup_callbacks) = 3
    /\ backend.overlapped
    /\ backend.done = { 1, 2, 3 }

----------------------------------------------------------------------------
(* Properties of setup.sh and of the run of an array element               *)

\* C31: when an array element reaches the user script, the commands of
\* setup.sh ran in the order: the export of CANINE_JOB_VARS, the exports of
\* the job and of the inputs and the fetch commands, the setup text the
\* caller supplied, and `cd $CANINE_JOB_ROOT` as the last command.
C31_SetupTextBeforeCd ==
    task.at = "script" =>
       LET r == task.ran
       IN  /\ TaskCommands[1] = [ cmd |-> "export", name |-> "CANINE_JOB_VARS" ]
           /\ r[Len(r)] = "cd"
           /\ \A i, j \in 1..Len(r) :
                 (r[i] = "setup_text" /\ r[j] = "cd") => i < j
           /\ \A i, j \in 1..Len(r) :
                 (r[i] \notin { "setup_text", "cd" } /\ r[j] = "setup_text") => i < j

\* The task whose setup.sh the running element sources, and the quoted
\* destination setup.sh gives input n of it.
Running == task.index
DestOf(n) ==
    ShQuote(Text(LocalizeFile(fs, config, Running, locInputs[Running][n].path, TRUE).path))

\* C32: when the user script of an array element starts, every input of the
\* task is exported, the fetch of every streamed input has been launched, and
\* the copy of every input of type download has ended.
C32_InputsReadyAtScriptStart ==
    task.at = "script" =>
       \A n \in DOMAIN config.inputs[Running] :
          /\ n \in task.env
          /\ (n \in DOMAIN locInputs[Running]
                /\ locInputs[Running][n].type = "stream") =>
                DestOf(n) \in task.launched
          /\ (n \in DOMAIN locInputs[Running]
                /\ locInputs[Running][n].type = "download") =>
                DestOf(n) \in task.copied

----------------------------------------------------------------------------
(* Properties of the Localizer's records                                   *)

\* C33: a second call of localize on a Localizer whose localize has returned
\* plans nothing, copies nothing and leaves Localizer.inputs as it is.
C33_SecondLocalizeDoesNothing ==
    [][(hist.localizeReturned /\ pc = "localized" /\ pc' = "relocalized") =>
          /\ locInputs' = locInputs
          /\ commonInputs' = commonInputs
          /\ fs' = fs]_vars

\* C34: once localize has returned no step changes Localizer.inputs; a
\* task's setup.sh is created only by the localize_job call of that task's
\* turn in the loop, which has not been made before, and while the file
\* exists its content does not change.
C34_RecordsFrozenSetupWrittenOnce ==
    /\ [][hist.localizeReturned => locInputs' = locInputs]_vars
    /\ [][\A t \in Tasks :
            /\ (HasSetup(t) /\ IsRegular(fs', SetupPath(t))) =>
                  fs'[SetupPath(t)] = fs[SetupPath(t)]
            /\ (~HasSetup(t) /\ IsRegular(fs', SetupPath(t))) =>
                  /\ jobIdx < Len(config.jobSpec)
                  /\ t = config.jobSpec[jobIdx + 1]
                  /\ jobIdx' = jobIdx + 1
                  /\ t \notin hist.jobCalls]_vars
    /\ [][jobIdx' \in { jobIdx, jobIdx + 1 }]_vars

\* A run of two tasks has returned: localize_job ran for both, the outputs
\* of both were delocalized, the Localizer has exited, and the records are
\* those localize made.
C34_Witness ==
    /\ pc = "returned"
    /\ Len(config.jobSpec) = 2
    /\ hist.jobCalls = Tasks
    /\ \A t \in Tasks : "a" \in DOMAIN locInputs[t]
    /\ DOMAIN hist.delocCount # {}
    /\ hist.exits = << "Localizer.clean", "Backend" >>

\* The configuration with every string override written in lowercase, and
\* the file system localize starts from.
Lowercased(cfg) ==
    [ cfg EXCEPT !.overrides =
        [ k \in DOMAIN cfg.overrides |->
            IF cfg.overrides[k] = Raw("Stream") THEN Raw("stream")
            ELSE cfg.overrides[k] ] ]
FsAtLocalize ==
    [ q \in { config.mount_path, Env(config).CANINE_ROOT, Env(config).CANINE_COMMON,
              Env(config).CANINE_OUTPUT, Env(config).CANINE_JOBS } |-> Dir ]

\* The (task, input) entries whose override is not a string.
NonString == { x \in Entries : x[2] \in DOMAIN config.overrides
                               /\ ~config.overrides[x[2]].str }

\* C35: when localize returns, the records, the common set and the staging
\* tree are those localize makes of the same inputs with every string
\* override in lowercase; an input whose override is not a string is
\* recorded as (none, value), and a value only such inputs use is neither in
\* the common set nor copied to the staging tree.
C35_OverridesNormalised ==
    pc = "localized" =>
       /\ \E w \in CommonWinners(Lowercased(config), CommonInputs(Lowercased(config))) :
             LET st == LocalizePlan(FsAtLocalize, << >>, Lowercased(config), w)
             IN  st.fs = fs /\ st.inputs = locInputs
       /\ commonInputs = CommonInputs(Lowercased(config))
       /\ \A x \in NonString :
             LET v == config.inputs[x[1]][x[2]]
             IN  /\ locInputs[x[1]][x[2]] = Localization("none", v)
                 /\ Uses(v) \subseteq NonString =>
                       v \notin commonInputs /\ ~Copied(v)

\* localize has returned for two tasks that give the same existing file to
\* an input whose override is not a string: nothing is copied.
C35_Witness ==
    /\ pc = "localized"
    /\ Cardinality(NonString) = 2
    /\ Uses(F1) = NonString
    /\ \A x \in NonString : locInputs[x[1]][x[2]] = Localization("none", F1)
    /\ ~Copied(F1)

----------------------------------------------------------------------------
(* Properties of the array indices                                          *)

\* C37: when sbatch is called for a job spec of N tasks, every array index
\* i of 0..N-1 has jobs/<i>/setup.sh and jobs/<i>/workspace in the staging
\* directory, and every array element whose outputs are delocalized is a
\* task whose inputs localize recorded.
C37_ArrayIndexHasTaskDirectory ==
    /\ pc = "submit" =>
          \A i \in 0..(Len(config.jobSpec) - 1) :
             /\ IsRegular(fs, Join(StagingDir, << C("jobs"), C(Str(i)), << "setup", "sh" >> >>))
             /\ IsDir(fs, Join(StagingDir, << C("jobs"), C(Str(i)), C("workspace") >>))
    /\ \A t \in DOMAIN outputs : t \in DOMAIN locInputs

----------------------------------------------------------------------------
(* Properties of the staging tree's removal                                 *)

Tree == Env(config).CANINE_ROOT

\* C38: the staging tree exists whenever the poll loop is about to call
\* sacct and delocalize; a step that removes the tree is the Localizer's
\* clean exit with an empty waiting set, and a faulted exit removes nothing;
\* parse_outputs is called only after that removal and before the backend's
\* exit.
C38_TreeKeptWhileWaiting ==
    /\ [](pc = "poll" => waiting # {} /\ IsDir(fs, Tree))
    /\ [][ (IsDir(fs, Tree) /\ ~IsDir(fs', Tree)) =>
              /\ pc = "leave_localizer" /\ exc = NoExc /\ waiting = {}
              /\ hist'.exits = Append(hist.exits, "Localizer.clean") ]_vars
    /\ [][ (pc = "leave_localizer" /\ exc # NoExc) =>
              fs' = fs /\ pc' = "leave_backend" ]_vars
    /\ [][ hist'.parseCalls # hist.parseCalls =>
              /\ hist.exits = << "Localizer.clean" >>
              /\ ~IsDir(fs, Tree)
              /\ hist'.exits = hist.exits ]_vars

\* A run of two tasks that returned: the tree is gone, the outputs were
\* parsed once, and the Localizer left before the backend.
C38_Witness ==
    /\ pc = "returned"
    /\ Len(config.jobSpec) = 2
    /\ waiting = {}
    /\ ~IsDir(fs, Tree)
    /\ hist.parseCalls = 1
    /\ DOMAIN hist.delocCount = Indices
    /\ hist.waitingStart = Elements

----------------------------------------------------------------------------
(* Properties of the records at submission                                  *)

\* C39: when sbatch is called, every record of type none whose path lies
\* under the inputs/ directory of its task or under common/ names a file
\* that exists in the staging area, whatever the override of the input and
\* whatever its value.
C39_NoneRecordsNameFiles ==
    pc = "submit" =>
       \A t \in DOMAIN locInputs : \A n \in DOMAIN locInputs[t] :
          LET r == locInputs[t][n]
          IN  (/\ r.type = "none"
               /\ \/ Below(r.path, Join(Environment(config).CANINE_JOBS,
                                        << C(t), C("inputs") >>))
                  \/ Below(r.path, Environment(config).CANINE_COMMON)) =>
                 IsRegular(fs, OnController(r.path))

----------------------------------------------------------------------------
(* Properties of Orchestrator.__init__ on the caller's config               *)

\* What the caller's dict held for the Localizer when it was given.
GivenLocalization ==
    IF "localization" \in DOMAIN caller.given THEN caller.given["localization"]
    ELSE << >>
GivenOverrides ==
    IF "overrides" \in DOMAIN GivenLocalization THEN GivenLocalization["overrides"]
    ELSE << >>

\* C40: every Orchestrator constructed from the caller's config hands to
\* localize the overrides the config was given with, and to the Localizer
\* constructor the other localization options it was given with, never an
\* `overrides` option; constructing it leaves the localization options of
\* the caller's config as they were given.
C40_ConfigNotConsumed ==
    caller.used =>
       /\ \A k \in 1..Len(caller.made) :
             caller.made[k].ran =>
                /\ caller.made[k].overrides = GivenOverrides
                /\ caller.made[k].localizer_kwargs = Del(GivenLocalization, "overrides")
                /\ "overrides" \notin DOMAIN caller.made[k].localizer_kwargs
       /\ "localization" \in DOMAIN caller.given =>
             caller.config["localization"] = caller.given["localization"]

====
